---- MODULE Spec2Model ----
(***************************************************************************)
(* Model of server.js: the CompilerSimulator class (tokenizer, recursive-  *)
(* descent parser, symbol table, instruction encoder) and the /compile     *)
(* request handler that drives it.                                         *)
(*                                                                         *)
(* JavaScript strings whose characters the code inspects (the source, the  *)
(* token values, the register names, the binary and hex renderings) are    *)
(* sequences of one-character strings; Text turns such a sequence into one *)
(* string where the code only concatenates or compares it.                 *)
(***************************************************************************)
EXTENDS Integers, Sequences, FiniteSets, TLC

VARIABLES
    pc,            \* position of the /compile handler
    code,          \* req.body.code
    tokens,        \* simulator.tokens
    pos,           \* simulator.pos
    symbolTable,   \* simulator.symbolTable
    currentAddr,   \* simulator.currentAddr
    dataSection,   \* simulator.dataSection, one entry per line
    codeSection,   \* simulator.codeSection, one entry per line
    binaryOutput,  \* simulator.binaryOutput, one entry per line
    tempRegCount,  \* simulator.tempRegCount
    thrown,        \* the exception travelling to the catch clause
    mips,          \* handler local mips
    binary,        \* handler local binary
    tempFile,      \* contents of temp_code.txt
    response,      \* what res.json was called with
    served,        \* number of requests answered
    sessions,      \* the answered requests, oldest first
    emitted,       \* log of the calls of emitInstruction, with their arguments
    children,      \* the interpreter processes exec started, oldest first
    interp         \* the globals of the interpreter (parser.y) of one process

vars == <<pc, code, tokens, pos, symbolTable, currentAddr, dataSection,
          codeSection, binaryOutput, tempRegCount, thrown, mips, binary,
          tempFile, response, served, sessions, emitted, children,
          interp>>

simVars == <<tokens, pos, symbolTable, currentAddr, dataSection,
             codeSection, binaryOutput, tempRegCount>>

-----------------------------------------------------------------------------
(* Bounds of the model *)

MaxFrags == 3
MaxOperands == 3
MaxSessions == 2
MaxLines == 3

-----------------------------------------------------------------------------
(* Strings *)

\* the string of the characters of cs, one half after the other
RECURSIVE Text(_)
Text(cs) ==
    IF cs = <<>> THEN ""
    ELSE IF Len(cs) = 1 THEN cs[1]
    ELSE Text(SubSeq(cs, 1, Len(cs) \div 2))
         \o Text(SubSeq(cs, Len(cs) \div 2 + 1, Len(cs)))

RECURSIVE Flatten(_)
Flatten(ss) == IF ss = <<>> THEN <<>> ELSE Head(ss) \o Flatten(Tail(ss))

DigitChars == <<"0", "1", "2", "3", "4", "5", "6", "7", "8", "9">>

Digit == {DigitChars[k] : k \in 1..10}

DigitValue(c) == (CHOOSE k \in 1..10 : DigitChars[k] = c) - 1

\* parseInt on a string of decimal digits
RECURSIVE ParseIntAcc(_, _)
ParseIntAcc(cs, acc) ==
    IF cs = <<>> \/ Head(cs) \notin Digit THEN acc
    ELSE ParseIntAcc(Tail(cs), acc * 10 + DigitValue(Head(cs)))

ParseInt(cs) == ParseIntAcc(cs, 0)

\* the decimal rendering of a number inside a template literal
RECURSIVE Decimal(_)
Decimal(n) ==
    IF n < 10 THEN <<DigitChars[n + 1]>>
    ELSE Decimal(n \div 10) \o <<DigitChars[(n % 10) + 1]>>

Ascii ==
    <<" ", "!", "\"", "#", "$", "%", "&", "'", "(", ")", "*", "+", ",", "-",
      ".", "/", "0", "1", "2", "3", "4", "5", "6", "7", "8", "9", ":", ";",
      "<", "=", ">", "?", "@", "A", "B", "C", "D", "E", "F", "G", "H", "I",
      "J", "K", "L", "M", "N", "O", "P", "Q", "R", "S", "T", "U", "V", "W",
      "X", "Y", "Z", "[", "(backslash)", "]", "^", "_", "(backtick)", "a", "b", "c",
      "d", "e",
      "f", "g", "h", "i", "j", "k", "l", "m", "n", "o", "p", "q", "r", "s",
      "t", "u", "v", "w", "x", "y", "z", "{", "|", "}", "~">>

\* String.prototype.charCodeAt for the characters of a source
CharCode(c) ==
    IF c = "\n" THEN 10
    ELSE IF c = "\t" THEN 9
    ELSE IF c = "\r" THEN 13
    ELSE 31 + (CHOOSE k \in 1..Len(Ascii) : Ascii[k] = c)

-----------------------------------------------------------------------------
(* PART 1: constants and token definitions *)

\* TokenType, one definition per member (VARIABLE is a reserved word)
KEYWORD == "KEYWORD"
VARIABLE_ == "VARIABLE"
INTEGER == "INTEGER"
CHAR_LITERAL == "CHAR_LITERAL"
OPERATOR == "OPERATOR"
DELIMITER == "DELIMITER"
STRING_LITERAL == "STRING_LITERAL"

KEYWORDS ==
    {"boot", "end", "var", "const", "int", "float", "char", "dsply", "dsply@"}

\* what indexing past the end of an array or a failed find yields
Undefined == [type |-> "undefined", value |-> <<>>, line |-> 0]

NoSymbol == [name |-> "", type |-> "undefined", addr |-> 0, isConst |-> FALSE]

-----------------------------------------------------------------------------
(* Exceptions *)

NoError == [name |-> "none", located |-> FALSE, line |-> 0, message |-> ""]

\* new Error of "Line", the line and the message
LineError(line, message) ==
    [name |-> "Error", located |-> TRUE, line |-> line, message |-> message]

\* new Error of "End of File" and the message
EndOfFileError(message) ==
    [name |-> "Error", located |-> FALSE, line |-> 0, message |-> message]

\* the TypeError of reading a property of undefined
TypeError(property) ==
    [name |-> "TypeError", located |-> FALSE, line |-> 0,
     message |-> "Cannot read properties of undefined (reading '"
                 \o property \o "')"]

\* lineStr + ": " + message, as err.message delivers it
ErrorMessage(e) ==
    IF e.name = "TypeError" THEN e.message
    ELSE IF e.located THEN "Line " \o Text(Decimal(e.line)) \o ": " \o e.message
    ELSE "End of File: " \o e.message

-----------------------------------------------------------------------------
(* PART 2: helpers (binary and hex).  A 32-bit integer of the bitwise       *)
(* operators is the sequence of its 32 bits, most significant first.       *)

HexChars ==
    <<"0", "1", "2", "3", "4", "5", "6", "7", "8", "9", "A", "B", "C", "D",
      "E", "F">>

\* ToInt32 of a non-negative number below 2^31: its low n bits
ToBits(x, n) ==
    [k \in 1..n |-> IF n - k > 30 THEN 0 ELSE (x \div (2 ^ (n - k))) % 2]

Int32(x) == ToBits(x, 32)

\* a shift by one position too many
ShiftLeftFurther(a, k) == SubSeq(a, k + 2, 32) \o [j \in 1..(k + 1) |-> 0]

\* a << k
ShiftLeft(a, k) == SubSeq(a, k + 1, 32) \o [j \in 1..k |-> 0]

\* a | b
BitOr(a, b) == [k \in 1..32 |-> IF a[k] = 1 \/ b[k] = 1 THEN 1 ELSE 0]

\* a & b
BitAnd(a, b) == [k \in 1..32 |-> IF a[k] = 1 /\ b[k] = 1 THEN 1 ELSE 0]

\* while (str.length < width) str = "0" + str
PadZeros(cs, width) ==
    IF Len(cs) < width THEN [k \in 1..(width - Len(cs)) |-> "0"] \o cs
    ELSE cs

\* a digit string without its leading zeros, as toString produces it
StripZeros(cs) ==
    IF \A k \in 1..Len(cs) : cs[k] = "0"
    THEN SubSeq(cs, Len(cs), Len(cs))
    ELSE SubSeq(cs, CHOOSE k \in 1..Len(cs) :
                        /\ cs[k] # "0"
                        /\ \A j \in 1..(k - 1) : cs[j] = "0",
                Len(cs))

\* (num >>> 0).toString(2) of a 32-bit pattern
ToString2(num) == StripZeros([k \in 1..32 |-> DigitChars[num[k] + 1]])

toBin(num, bits) ==
    LET Last(bin) == SubSeq(bin, Len(bin) - bits + 1, Len(bin))
    IN  Last(PadZeros(ToString2(num), bits))

\* parseInt(binStr, 2).toString(16).toUpperCase(): four binary digits make
\* one hexadecimal digit, and toString drops the leading zeros
HexDigits(cs) ==
    [k \in 1..(Len(cs) \div 4) |->
        HexChars[8 * DigitValue(cs[4 * k - 3]) + 4 * DigitValue(cs[4 * k - 2])
                 + 2 * DigitValue(cs[4 * k - 1]) + DigitValue(cs[4 * k]) + 1]]

binToHex(binStr) ==
    <<"0", "x">>
    \o PadZeros(StripZeros(HexDigits(PadZeros(binStr,
                     4 * ((Len(binStr) + 3) \div 4)))), 8)

\* The field-by-field encoders of the earlier translator: every operand is
\* cut to the width of its own field
encodeRType(opcode, rs, rt, rd, shamt, funct) ==
    toBin(Int32(opcode), 6) \o toBin(Int32(rs), 5) \o toBin(Int32(rt), 5)
    \o toBin(Int32(rd), 5) \o toBin(Int32(shamt), 5) \o toBin(Int32(funct), 6)

encodeIType(opcode, rs, rt, imm) ==
    toBin(Int32(opcode), 6) \o toBin(Int32(rs), 5) \o toBin(Int32(rt), 5)
    \o toBin(Int32(imm), 16)

-----------------------------------------------------------------------------
(* PART 3: the CompilerSimulator class.  Its methods are operators on the  *)
(* record s of the object's fields; s.thrown is the exception a method     *)
(* raised (every method is skipped once one is raised) and s.ret is the    *)
(* value the method returned.                                              *)

\* a simulator that starts from the symbols of the one before it
InheritingSimulator ==
    [tokens |-> <<>>, pos |-> 0, symbolTable |-> symbolTable,
     currentAddr |-> currentAddr,
     dataSection |-> <<".data">>, codeSection |-> <<".code">>,
     binaryOutput |-> <<>>, tempRegCount |-> 0,
     emitted |-> <<>>, thrown |-> NoError, ret |-> Undefined]

\* constructor
NewSimulator ==
    [tokens |-> <<>>, pos |-> 0, symbolTable |-> <<>>, currentAddr |-> 0,
     dataSection |-> <<".data">>, codeSection |-> <<".code">>,
     binaryOutput |-> <<>>, tempRegCount |-> 0,
     emitted |-> <<>>, thrown |-> NoError, ret |-> Undefined]

Throw(s, e) == [s EXCEPT !.thrown = e]

Return(s, v) == [s EXCEPT !.ret = v]

peek(s) ==
    IF s.pos < Len(s.tokens) THEN s.tokens[s.pos + 1] ELSE Undefined

\* this.tokens[this.pos + k]
tokenAt(s, k) ==
    IF s.pos + k < Len(s.tokens) THEN s.tokens[s.pos + k + 1] ELSE Undefined

error(s, message) ==
    LET token == peek(s)
    IN  Throw(s, IF token # Undefined THEN LineError(token.line, message)
                 ELSE EndOfFileError(message))

findSymbol(s, name) ==
    IF \E k \in 1..Len(s.symbolTable) : s.symbolTable[k].name = name
    THEN s.symbolTable[CHOOSE k \in 1..Len(s.symbolTable) :
                          /\ s.symbolTable[k].name = name
                          /\ \A j \in 1..(k - 1) : s.symbolTable[j].name # name]
    ELSE NoSymbol

\* a storage size that ignores the type
StorageSizeUniform(type) == 8

StorageSize(type) == IF type = "char" THEN 1 ELSE 8

\* addSymbol without the lookup that rejects a known name
addSymbolUnchecked(s, name, type, isConst) ==
    [s EXCEPT
       !.symbolTable = Append(@, [name |-> name, type |-> type,
                                 addr |-> s.currentAddr, isConst |-> isConst]),
       !.dataSection = Append(@, "    " \o name \o ": "
                                 \o (IF type = "char" THEN ".byte"
                                     ELSE ".dword")),
       !.currentAddr = @ + StorageSize(type)]

addSymbol(s, name, type, isConst) ==
    IF findSymbol(s, name) # NoSymbol
    THEN error(s, "Redeclaration of variable '" \o name \o "'")
    ELSE LET addr == s.currentAddr
             size == StorageSize(type)
             directive == IF type = "char" THEN ".byte" ELSE ".dword"
         IN  [s EXCEPT
                !.symbolTable = Append(@, [name |-> name, type |-> type,
                                          addr |-> addr, isConst |-> isConst]),
                !.dataSection = Append(@, "    " \o name \o ": " \o directive),
                !.currentAddr = @ + size]

\* a register allocator that hands out R1 every time
getSameReg(s) == [s EXCEPT !.ret = <<"R", "1">>]

getTempReg(s) ==
    [s EXCEPT !.tempRegCount = @ + 1,
              !.ret = <<"R">> \o Decimal(s.tempRegCount + 1)]

\* a statement start that leaves the counter where it is
keepTempRegs(s) == s

resetTempRegs(s) == [s EXCEPT !.tempRegCount = 0]

\* parseInt(reg.substring(1))
RegNum(reg) == ParseInt(Tail(reg))

\* --- machine code writer ---
\* machine, the 32-bit pattern emitInstruction packs for a mnemonic
Machine(instr, rd, rs, rt, imm) ==
    LET Op(opcode) == ShiftLeft(Int32(opcode), 26)
        Rs == ShiftLeft(Int32(rs), 21)
        Rt == ShiftLeft(Int32(rt), 16)
        Rd == ShiftLeft(Int32(rd), 11)
        Imm == BitAnd(Int32(imm), Int32(65535))
        Or4(a, b, c, d) == BitOr(BitOr(BitOr(a, b), c), d)
    IN  CASE instr = "DADDIU" -> Or4(Op(25), Rs, Rt, Imm)
          [] instr = "DADDU" -> BitOr(Or4(Op(0), Rs, Rt, Rd), Int32(45))
          [] instr = "DSUBU" -> BitOr(Or4(Op(0), Rs, Rt, Rd), Int32(47))
          [] instr = "DMULTU" -> Or4(Op(0), Rs, Rt, Int32(29))
          [] instr = "DDIVU" -> Or4(Op(0), Rs, Rt, Int32(31))
          [] instr = "LD" -> Or4(Op(55), Rs, Rt, Imm)
          [] instr = "SD" -> Or4(Op(63), Rs, Rt, Imm)
          [] instr = "MFLO" ->
                BitOr(Or4(Op(0), ShiftLeft(Int32(0), 21),
                          ShiftLeft(Int32(0), 16), Rd), Int32(18))
          [] instr = "SB" -> Or4(Op(40), Rs, Rt, Imm)
          [] instr = "LBU" -> Or4(Op(36), Rs, Rt, Imm)
          [] OTHER -> Int32(0)

\* s.emitted logs the arguments of every call, in call order.
emitInstruction(s, instr, rd, rs, rt, imm, asm_instr) ==
    LET Line(binStr) == Text(binStr) \o " (" \o Text(binToHex(binStr)) \o ")"
    IN  [s EXCEPT
           !.codeSection = Append(@, "    " \o asm_instr),
           !.binaryOutput =
               Append(@, Line(toBin(Machine(instr, rd, rs, rt, imm), 32))),
           !.emitted = Append(@, [instr |-> instr, rd |-> rd, rs |-> rs,
                                  rt |-> rt, imm |-> imm,
                                  asm_instr |-> asm_instr])]

-----------------------------------------------------------------------------
(* --- tokenizer --- *)

Whitespace == {" ", "\t", "\r", "\n"}

IdentStart ==
    {"a", "b", "c", "d", "e", "f", "g", "h", "i", "j", "k", "l", "m", "n",
     "o", "p", "q", "r", "s", "t", "u", "v", "w", "x", "y", "z", "A", "B",
     "C", "D", "E", "F", "G", "H", "I", "J", "K", "L", "M", "N", "O", "P",
     "Q", "R", "S", "T", "U", "V", "W", "X", "Y", "Z", "_"}

IdentPart == IdentStart \cup Digit \cup {"@"}

Punctuation == {"=", "+", "-", "*", "/", "(", ")", ",", ".", ";", "[", "]", "!"}

\* source[i], with the code's zero-based index
CharAt(source, i) == IF i < Len(source) THEN source[i + 1] ELSE "undefined"

\* source.slice(start, i)
Slice(source, start, i) == SubSeq(source, start + 1, i)

\* while (i < length && source[i] is in class) i++
RECURSIVE SkipWhile(_, _, _)
SkipWhile(source, i, class) ==
    IF i < Len(source) /\ source[i + 1] \in class
    THEN SkipWhile(source, i + 1, class)
    ELSE i

\* while (i < length && source[i] !== stop) i++
RECURSIVE SkipUntil(_, _, _)
SkipUntil(source, i, stop) ==
    IF i < Len(source) /\ source[i + 1] # stop
    THEN SkipUntil(source, i + 1, stop)
    ELSE i

Token(type, value, line) == [type |-> type, value |-> value, line |-> line]

\* The loop of tokenize from index i on, line being the line counter and
\* toks the tokens pushed so far.
\* what one iteration of the loop leaves: the index, the line, the tokens
\* it pushed and the exception it threw
Scanned(i, line, push) ==
    [i |-> i, line |-> line, push |-> push, thrown |-> NoError]

ScanPunctuation(source, i, line, char, next) ==
    IF char \in {"+", "-", "*", "/"} /\ next = "="
    THEN Scanned(i + 2, line, <<Token(OPERATOR, <<char, "=">>, line)>>)
    ELSE IF char = "!" /\ next = "!"
    THEN Scanned(i + 2, line, <<Token(DELIMITER, <<"!", "!">>, line)>>)
    ELSE Scanned(i + 1, line,
                 <<Token(IF char \in {"=", "+", "-", "*", "/"}
                         THEN OPERATOR ELSE DELIMITER, <<char>>, line)>>)

\* start is the index behind the opening quote, j that of the closing one
ScanString(source, start, j, line) ==
    Scanned(j + 1, line,
            <<Token(IF Len(Slice(source, start, j)) = 1 THEN CHAR_LITERAL
                    ELSE STRING_LITERAL, Slice(source, start, j), line)>>)

ScanIdentifier(source, start, j, line) ==
    Scanned(j, line,
            <<Token(IF Text(Slice(source, start, j)) \in KEYWORDS
                       \/ Text(Slice(source, start, j)) = "int"
                       \/ Text(Slice(source, start, j)) = "float"
                       \/ Text(Slice(source, start, j)) = "char"
                    THEN KEYWORD ELSE VARIABLE_,
                    Slice(source, start, j), line)>>)

ScanNumber(source, start, j, line) ==
    Scanned(j, line, <<Token(INTEGER, Slice(source, start, j), line)>>)

\* the body of the while loop of tokenize, char being source[i]
Scan(source, i, line, char) ==
    IF char = "\n" THEN Scanned(i + 1, line + 1, <<>>)
    ELSE IF char \in Whitespace THEN Scanned(i + 1, line, <<>>)
    ELSE IF char = "#" \/ (char = "/" /\ CharAt(source, i + 1) = "/")
    THEN Scanned(SkipUntil(source, i, "\n"), line, <<>>)
    ELSE IF char \in Punctuation
    THEN ScanPunctuation(source, i, line, char, CharAt(source, i + 1))
    ELSE IF char = "\""
    THEN ScanString(source, i + 1, SkipUntil(source, i + 1, "\""), line)
    ELSE IF char = "'"
    THEN [Scanned(i, line, <<>>) EXCEPT
            !.thrown = LineError(line, "Single quotes are not supported. "
                           \o "Use double quotes (\") for characters.")]
    ELSE IF char \in IdentStart
    THEN ScanIdentifier(source, i, SkipWhile(source, i, IdentPart), line)
    ELSE IF char \in Digit
    THEN ScanNumber(source, i, SkipWhile(source, i, Digit), line)
    ELSE [Scanned(i, line, <<>>) EXCEPT
            !.thrown = LineError(line, "Unknown character '" \o char \o "'")]

\* the tokens pushed so far, with what the iteration r pushed
Pushed(toks, r) ==
    [i |-> r.i, line |-> r.line, thrown |-> r.thrown, tokens |-> toks \o r.push]

\* the while loop of tokenize, from the loop state r on; a throw leaves it
RECURSIVE TokenizeFrom(_, _)
TokenizeFrom(source, r) ==
    IF r.thrown # NoError \/ ~(r.i < Len(source)) THEN r
    ELSE TokenizeFrom(source,
             Pushed(r.tokens, Scan(source, r.i, r.line, source[r.i + 1])))

\* this.tokens = [] and the loop; on a throw the tokens pushed so far stay
TokenizeResult(s, r) == [s EXCEPT !.tokens = r.tokens, !.thrown = r.thrown]

tokenize(s, source) ==
    TokenizeResult(s, TokenizeFrom(source, Pushed(<<>>, Scanned(0, 1, <<>>))))

\* The same loop, keeping for every pushed token the index i at which its
\* iteration began: the index of the token's first character
Marked(r, next) ==
    [i |-> next.i, line |-> next.line, thrown |-> next.thrown,
     tokens |-> next.tokens,
     starts |-> IF Len(next.tokens) > Len(r.tokens)
                THEN Append(r.starts, r.i) ELSE r.starts]

RECURSIVE TokenStartsFrom(_, _)
TokenStartsFrom(source, r) ==
    IF r.thrown # NoError \/ ~(r.i < Len(source)) THEN r
    ELSE TokenStartsFrom(source,
             Marked(r, Pushed(r.tokens,
                              Scan(source, r.i, r.line, source[r.i + 1]))))

TokenStarts(source) ==
    TokenStartsFrom(source, [i |-> 0, line |-> 1, thrown |-> NoError,
                             tokens |-> <<>>, starts |-> <<>>]).starts

-----------------------------------------------------------------------------
(* --- parser ---                                                          *)
(* The blocks of a method are operators of their own, each taking the      *)
(* simulator as the call before it left it and the method's locals.        *)

\* value is "" where the call passes no value
match(s, type, value) ==
    IF /\ s.pos < Len(s.tokens)
       /\ peek(s).type = type
       /\ (value = "" \/ Text(peek(s).value) = value)
    THEN [s EXCEPT !.pos = @ + 1, !.ret = s.tokens[s.pos + 1]]
    ELSE Return(s, Undefined)

Failed(s) == s.thrown # NoError

Advance(s) == [s EXCEPT !.pos = @ + 1]

RECURSIVE parseExpression(_)
RECURSIVE ExpressionLoop(_, _)
RECURSIVE parseTerm(_)
RECURSIVE TermLoop(_, _)
RECURSIVE parseFactor(_)

\* a literal whose handle is returned without an instruction that loads it
FactorImmediateUnloaded(s, reg, val) == Return(Advance(s), reg)

FactorImmediate(s, reg, val) ==
    Return(Advance(emitInstruction(s, "DADDIU", 0, 0, RegNum(reg), val,
               "DADDIU " \o Text(reg) \o ", R0, #" \o Text(Decimal(val)))),
           reg)

FactorVariable(s, reg, name, sym) ==
    IF sym = NoSymbol
    THEN error(s, "Undefined variable '" \o name \o "'")
    ELSE IF sym.type = "char"
    THEN Return(Advance(emitInstruction(s, "LBU", RegNum(reg), 0, 0, 0,
                    "LBU " \o Text(reg) \o ", " \o name \o "(R0)")), reg)
    ELSE Return(Advance(emitInstruction(s, "LD", RegNum(reg), 0, 0, 0,
                    "LD " \o Text(reg) \o ", " \o name \o "(R0)")), reg)

FactorClosing(s, r) ==
    IF s.ret = Undefined
    THEN error(s, "Missing closing parenthesis ')'")
    ELSE Return(s, r)

FactorParenthesised(s) ==
    IF Failed(s) THEN s ELSE FactorClosing(match(s, DELIMITER, ")"), s.ret)

FactorOf(s, t, reg) ==
    IF t.type = INTEGER THEN FactorImmediate(s, reg, ParseInt(t.value))
    ELSE IF t.type = CHAR_LITERAL
    THEN FactorImmediate(s, reg, CharCode(t.value[1]))
    ELSE IF t.type = VARIABLE_
    THEN FactorVariable(s, reg, Text(t.value), findSymbol(s, Text(t.value)))
    ELSE IF Text(t.value) = "("
    THEN FactorParenthesised(parseExpression(Advance(s)))
    ELSE error(s, "Unexpected token '" \o Text(t.value) \o "'")

FactorAllocated(s, t) == FactorOf(s, t, s.ret)

parseFactor(s) ==
    IF peek(s) = Undefined THEN error(s, "Unexpected end of input")
    ELSE FactorAllocated(getTempReg(s), peek(s))

\* the multiply or divide alone, its result left in the accumulator
TermEmitBare(s, op, leftReg, rightReg, resReg) ==
    IF op = "*"
    THEN emitInstruction(s, "DMULTU", 0, RegNum(leftReg), RegNum(rightReg), 0,
             "DMULTU " \o Text(leftReg) \o ", " \o Text(rightReg))
    ELSE emitInstruction(s, "DDIVU", 0, RegNum(leftReg), RegNum(rightReg), 0,
             "DDIVU " \o Text(leftReg) \o ", " \o Text(rightReg))

TermEmit(s, op, leftReg, rightReg, resReg) ==
    emitInstruction(
        IF op = "*"
        THEN emitInstruction(s, "DMULTU", 0, RegNum(leftReg),
                 RegNum(rightReg), 0,
                 "DMULTU " \o Text(leftReg) \o ", " \o Text(rightReg))
        ELSE emitInstruction(s, "DDIVU", 0, RegNum(leftReg),
                 RegNum(rightReg), 0,
                 "DDIVU " \o Text(leftReg) \o ", " \o Text(rightReg)),
        "MFLO", RegNum(resReg), 0, 0, 0, "MFLO " \o Text(resReg))

TermResult(s, op, leftReg, rightReg) ==
    TermLoop(TermEmit(s, op, leftReg, rightReg, s.ret), s.ret)

TermRight(s, op, leftReg) ==
    IF Failed(s) THEN s ELSE TermResult(getTempReg(s), op, leftReg, s.ret)

\* the while loop of parseTerm, leftReg being its local
TermLoop(s, leftReg) ==
    IF ~(s.pos < Len(s.tokens)) THEN Return(s, leftReg)
    ELSE IF Text(peek(s).value) # "*" /\ Text(peek(s).value) # "/"
    THEN Return(s, leftReg)
    ELSE TermRight(parseFactor(Advance(s)), Text(peek(s).value), leftReg)

TermLeft(s) == IF Failed(s) THEN s ELSE TermLoop(s, s.ret)

parseTerm(s) == TermLeft(parseFactor(s))

ExpressionEmit(s, op, leftReg, rightReg, resReg) ==
    IF op = "+"
    THEN emitInstruction(s, "DADDU", RegNum(resReg), RegNum(leftReg),
             RegNum(rightReg), 0,
             "DADDU " \o Text(resReg) \o ", " \o Text(leftReg)
             \o ", " \o Text(rightReg))
    ELSE emitInstruction(s, "DSUBU", RegNum(resReg), RegNum(leftReg),
             RegNum(rightReg), 0,
             "DSUBU " \o Text(resReg) \o ", " \o Text(leftReg)
             \o ", " \o Text(rightReg))

ExpressionResult(s, op, leftReg, rightReg) ==
    ExpressionLoop(ExpressionEmit(s, op, leftReg, rightReg, s.ret), s.ret)

ExpressionRight(s, op, leftReg) ==
    IF Failed(s) THEN s
    ELSE ExpressionResult(getTempReg(s), op, leftReg, s.ret)

\* the while loop of parseExpression, leftReg being its local
ExpressionLoop(s, leftReg) ==
    IF ~(s.pos < Len(s.tokens)) THEN Return(s, leftReg)
    ELSE IF Text(peek(s).value) # "+" /\ Text(peek(s).value) # "-"
    THEN Return(s, leftReg)
    ELSE ExpressionRight(parseTerm(Advance(s)), Text(peek(s).value), leftReg)

ExpressionLeft(s) == IF Failed(s) THEN s ELSE ExpressionLoop(s, s.ret)

parseExpression(s) == ExpressionLeft(parseTerm(s))

\* while (this.peek() && this.peek().value === ".") this.pos++
RECURSIVE SkipDots(_)
SkipDots(s) ==
    IF peek(s) # Undefined /\ Text(peek(s).value) = "."
    THEN SkipDots(Advance(s))
    ELSE s

\* a store that is full-width whatever the type
EmitStoreWide(s, type, reg, name) ==
    emitInstruction(s, "SD", 0, RegNum(reg), 0, 0,
                    "SD " \o Text(reg) \o ", " \o name \o "(R0)")

\* the store that ends a declaration or an assignment
EmitStore(s, type, reg, name) ==
    IF type = "char"
    THEN emitInstruction(s, "SB", 0, RegNum(reg), 0, 0,
                         "SB " \o Text(reg) \o ", " \o name \o "(R0)")
    ELSE emitInstruction(s, "SD", 0, RegNum(reg), 0, 0,
                         "SD " \o Text(reg) \o ", " \o name \o "(R0)")

DeclarationInitialised(s, type, name) ==
    IF Failed(s) THEN s ELSE EmitStore(s, type, s.ret, name)

DeclarationInitialiser(s, type, name) ==
    IF s.ret = Undefined THEN s
    ELSE DeclarationInitialised(parseExpression(s), type, name)

DeclarationAdded(s, type, name) ==
    IF Failed(s) THEN s
    ELSE DeclarationInitialiser(match(s, OPERATOR, "="), type, name)

DeclarationNamed(s, scope, type) ==
    IF s.ret = Undefined THEN error(s, "Expected variable name")
    ELSE DeclarationAdded(addSymbol(s, Text(s.ret.value), type,
                                    scope = "const"),
                          type, Text(s.ret.value))

DeclarationTyped(s, scope) ==
    IF s.ret = Undefined
    THEN error(s, "Expected type (int/float/char) after declaration")
    ELSE DeclarationNamed(match(s, VARIABLE_, ""), scope, Text(s.ret.value))

parseDeclaration(s) ==
    DeclarationTyped(match(SkipDots(Advance(resetTempRegs(s))), KEYWORD, ""),
                     Text(s.tokens[s.pos + 1].value))

\* the lookup check alone, without the check of isConst
RequireDeclared(s, sym, name) ==
    IF sym = NoSymbol
    THEN error(s, "Undefined variable '" \o name \o "'")
    ELSE s

\* the two checks of parseAssignment on the symbol it looked up
RequireMutable(s, sym, name) ==
    IF sym = NoSymbol
    THEN error(s, "Undefined variable '" \o name \o "'")
    ELSE IF sym.isConst
    THEN error(s, "Cannot reassign constant '" \o name \o "'")
    ELSE s

AssignmentSimple(s, sym, name) ==
    IF Failed(s) THEN s ELSE EmitStore(s, sym.type, s.ret, name)

AssignmentOperation(s, mathOp, loadReg, rhsReg, resReg) ==
    IF mathOp = "+"
    THEN emitInstruction(s, "DADDU", RegNum(resReg), RegNum(loadReg),
             RegNum(rhsReg), 0,
             "DADDU " \o Text(resReg) \o ", " \o Text(loadReg)
             \o ", " \o Text(rhsReg))
    ELSE IF mathOp = "-"
    THEN emitInstruction(s, "DSUBU", RegNum(resReg), RegNum(loadReg),
             RegNum(rhsReg), 0,
             "DSUBU " \o Text(resReg) \o ", " \o Text(loadReg)
             \o ", " \o Text(rhsReg))
    ELSE IF mathOp = "*" \/ mathOp = "/"
    THEN emitInstruction(
             IF mathOp = "*"
             THEN emitInstruction(s, "DMULTU", 0, RegNum(loadReg),
                      RegNum(rhsReg), 0,
                      "DMULTU " \o Text(loadReg) \o ", " \o Text(rhsReg))
             ELSE emitInstruction(s, "DDIVU", 0, RegNum(loadReg),
                      RegNum(rhsReg), 0,
                      "DDIVU " \o Text(loadReg) \o ", " \o Text(rhsReg)),
             "MFLO", RegNum(resReg), 0, 0, 0, "MFLO " \o Text(resReg))
    ELSE s

AssignmentResult(s, sym, name, mathOp, loadReg, rhsReg) ==
    EmitStore(AssignmentOperation(s, mathOp, loadReg, rhsReg, s.ret),
              sym.type, s.ret, name)

AssignmentRhs(s, sym, name, mathOp, loadReg) ==
    IF Failed(s) THEN s
    ELSE AssignmentResult(getTempReg(s), sym, name, mathOp, loadReg, s.ret)

\* the right-hand side compiled first and the current value loaded after it
AssignmentLoadLate(s, sym, name, mathOp) ==
    AssignmentRhs(
        IF sym.type = "char"
        THEN emitInstruction(parseExpression(s), "LBU", RegNum(s.ret), 0, 0, 0,
                 "LBU " \o Text(s.ret) \o ", " \o name \o "(R0)")
        ELSE emitInstruction(parseExpression(s), "LD", RegNum(s.ret), 0, 0, 0,
                 "LD " \o Text(s.ret) \o ", " \o name \o "(R0)"),
        sym, name, mathOp, s.ret)

AssignmentLoad(s, sym, name, mathOp) ==
    AssignmentRhs(
        parseExpression(
            IF sym.type = "char"
            THEN emitInstruction(s, "LBU", RegNum(s.ret), 0, 0, 0,
                     "LBU " \o Text(s.ret) \o ", " \o name \o "(R0)")
            ELSE emitInstruction(s, "LD", RegNum(s.ret), 0, 0, 0,
                     "LD " \o Text(s.ret) \o ", " \o name \o "(R0)")),
        sym, name, mathOp, s.ret)

AssignmentOperator(s, sym, name) ==
    IF s.ret = Undefined
    THEN error(s, "Expected assignment operator for '" \o name \o "'")
    ELSE IF Text(s.ret.value) = "="
    THEN AssignmentSimple(parseExpression(s), sym, name)
    ELSE AssignmentLoad(getTempReg(s), sym, name, s.ret.value[1])

AssignmentChecked(s, sym, name) ==
    IF Failed(s) THEN s
    ELSE AssignmentOperator(match(s, OPERATOR, ""), sym, name)

parseAssignment(s) ==
    AssignmentChecked(
        RequireMutable(match(resetTempRegs(s), VARIABLE_, ""),
                       findSymbol(s, Text(peek(s).value)),
                       Text(peek(s).value)),
        findSymbol(s, Text(peek(s).value)), Text(peek(s).value))

\* while (match("!") || match("!!"));
RECURSIVE SkipBangs(_)
SkipBangs(s) ==
    IF match(s, DELIMITER, "!").ret # Undefined
       \/ match(s, DELIMITER, "!!").ret # Undefined
    THEN SkipBangs(Advance(s))
    ELSE s

\* a payload check that lets either command print anything
DisplayPayloadAny(s, cmd, t) ==
    IF t = Undefined THEN Throw(s, TypeError("type"))
    ELSE IF t.type = STRING_LITERAL THEN Advance(s)
    ELSE parseExpression(s)

\* the body of the if, up to the check of the closing bracket
DisplayPayload(s, cmd, t) ==
    IF t = Undefined THEN Throw(s, TypeError("type"))
    ELSE IF t.type = STRING_LITERAL THEN Advance(s)
    ELSE IF t.type = VARIABLE_ /\ tokenAt(s, 1) = Undefined
    THEN Throw(s, TypeError("value"))
    ELSE IF t.type = VARIABLE_ /\ Text(tokenAt(s, 1).value) = "]"
    THEN IF cmd = "dsply"
         THEN error(s, "Use 'dsply@' to print variables")
         ELSE IF findSymbol(s, Text(t.value)) = NoSymbol
         THEN error(s, "Undefined variable '" \o Text(t.value) \o "'")
         ELSE Advance(s)
    ELSE IF cmd = "dsply"
    THEN error(s, "Use 'dsply@' to print variables/expressions")
    ELSE parseExpression(s)

DisplayClosing(s) ==
    IF s.ret = Undefined THEN error(s, "Missing closing bracket ']'")
    ELSE SkipBangs(s)

DisplayBracketed(s) ==
    IF Failed(s) THEN s ELSE DisplayClosing(match(s, DELIMITER, "]"))

DisplayOpening(s, cmd) ==
    IF s.ret = Undefined THEN SkipBangs(s)
    ELSE DisplayBracketed(DisplayPayload(s, cmd, peek(s)))

\* a display statement that consumes nothing
parsePrintIdle(s) == resetTempRegs(s)

parsePrint(s) ==
    DisplayOpening(match(Advance(resetTempRegs(s)), DELIMITER, "["),
                   Text(s.tokens[s.pos + 1].value))

-----------------------------------------------------------------------------
(* The sources a client sends *)

\* Pieces of source text; a source is a concatenation of pieces
Fragments == <<
    \* 1: boot //c\n
    <<"b", "o", "o", "t", " ", "/", "/", "c", "\n">>,
    \* 2: end\n
    <<"e", "n", "d", "\n">>,
    \* 3: var.int a\n
    <<"v", "a", "r", ".", "i", "n", "t", " ", "a", "\n">>,
    \* 4: var.char c="A"\n
    <<"v", "a", "r", ".", "c", "h", "a", "r", " ", "c", "=", "\"", "A", "\"",
      "\n">>,
    \* 5: const.int k=3\n
    <<"c", "o", "n", "s", "t", ".", "i", "n", "t", " ", "k", "=", "3", "\n">>,
    \* 6: const.char a=2\n
    <<"c", "o", "n", "s", "t", ".", "c", "h", "a", "r", " ", "a", "=", "2",
      "\n">>,
    \* 7: var.int a=1,b=2\n
    <<"v", "a", "r", ".", "i", "n", "t", " ", "a", "=", "1", ",", "b", "=",
      "2", "\n">>,
    \* 8: a-=2\n
    <<"a", "-", "=", "2", "\n">>,
    \* 9: a=2+3*4\n
    <<"a", "=", "2", "+", "3", "*", "4", "\n">>,
    \* 10: x\n=1\n
    <<"x", "\n", "=", "1", "\n">>,
    \* 11: a=\nx\n
    <<"a", "=", "\n", "x", "\n">>,
    \* 12: dsply@[x]!\n
    <<"d", "s", "p", "l", "y", "@", "[", "x", "]", "!", "\n">>,
    \* 13: dsply\n
    <<"d", "s", "p", "l", "y", "\n">>,
    \* 14: dsply@[]\n
    <<"d", "s", "p", "l", "y", "@", "[", "]", "\n">>,
    \* 15: dsply["hi"]!!\n
    <<"d", "s", "p", "l", "y", "[", "\"", "h", "i", "\"", "]", "!", "!", "\n">>,
    \* 16: dsply[
    <<"d", "s", "p", "l", "y", "[">>,
    \* 17: dsply@[a
    <<"d", "s", "p", "l", "y", "@", "[", "a">>,
    \* 18: $
    <<"$">>,
    \* 19: c
    <<"c">>
    >>

Sources ==
    {Flatten([k \in DOMAIN f |-> Fragments[f[k]]]) :
        f \in UNION {[1..n -> 1..Len(Fragments)] : n \in 0..MaxFrags}}

\* Whole programs, for the runs that compile more than one source
SessionPrograms ==
    {<<1, 3, 8, 15, 2>>, <<4, 5, 15, 13>>, <<3, 6>>, <<3, 18>>, <<1, 2, 7>>,
     <<10>>}

SessionSources ==
    {Flatten([k \in 1..Len(p) |-> Fragments[p[k]]]) : p \in SessionPrograms}

\* Sources that declare one variable with an initialiser: the initialiser
\* is a chain of operands joined by operators
Operands == <<
    <<"2">>, <<"3">>, <<"4">>, <<"8">>,
    \* (2+(18-3)*4)
    <<"(", "2", "+", "(", "1", "8", "-", "3", ")", "*", "4", ")">>
    >>

Operators == <<"+", "-", "*", "/">>

RECURSIVE Chains(_)
Chains(n) ==
    IF n = 1 THEN {Operands[k] : k \in 1..Len(Operands)}
    ELSE {e \o <<Operators[j]>> \o Operands[k] :
             e \in Chains(n - 1), j \in 1..Len(Operators),
             k \in 1..Len(Operands)}

\* var.int a=
DeclarationHead == <<"v", "a", "r", ".", "i", "n", "t", " ", "a", "=">>

ExprSources ==
    {DeclarationHead \o e : e \in UNION {Chains(n) : n \in 1..MaxOperands}}

\* Statements over an int a, a char c and a const k, one per line
StatementLines == <<
    \* 1: var.int a=2+3*4\n
    <<"v", "a", "r", ".", "i", "n", "t", " ", "a", "=", "2", "+", "3", "*",
      "4", "\n">>,
    \* 2: var.char c="A"\n
    <<"v", "a", "r", ".", "c", "h", "a", "r", " ", "c", "=", "\"", "A", "\"",
      "\n">>,
    \* 3: const.int k=7\n
    <<"c", "o", "n", "s", "t", ".", "i", "n", "t", " ", "k", "=", "7", "\n">>,
    \* 4: a=(a+1)*c\n
    <<"a", "=", "(", "a", "+", "1", ")", "*", "c", "\n">>,
    \* 5: a+=2*3\n
    <<"a", "+", "=", "2", "*", "3", "\n">>,
    \* 6: a-=k\n
    <<"a", "-", "=", "k", "\n">>,
    \* 7: a*=c+1\n
    <<"a", "*", "=", "c", "+", "1", "\n">>,
    \* 8: a/=(2)\n
    <<"a", "/", "=", "(", "2", ")", "\n">>,
    \* 9: c+=1\n
    <<"c", "+", "=", "1", "\n">>,
    \* 10: c=c/2\n
    <<"c", "=", "c", "/", "2", "\n">>,
    \* 11: dsply@[a*2+c]!\n
    <<"d", "s", "p", "l", "y", "@", "[", "a", "*", "2", "+", "c", "]", "!",
      "\n">>,
    \* 12: dsply@[a]\n
    <<"d", "s", "p", "l", "y", "@", "[", "a", "]", "\n">>,
    \* 13: var.int n=-5\n
    <<"v", "a", "r", ".", "i", "n", "t", " ", "n", "=", "-", "5", "\n">>,
    \* 14: a=2*-3\n
    <<"a", "=", "2", "*", "-", "3", "\n">>,
    \* 15: a=-a\n
    <<"a", "=", "-", "a", "\n">>
    >>

StatementSources ==
    {Flatten([k \in DOMAIN f |-> StatementLines[f[k]]]) :
        f \in UNION {[1..n -> 1..Len(StatementLines)] : n \in 0..MaxLines}}

\* The lines of the syntax guide of README.md, as it prints them
ReadmeLines == <<
    \* 1: boot\n
    <<"b", "o", "o", "t", "\n">>,
    \* 2: end\n
    <<"e", "n", "d", "\n">>,
    \* 3: var. int score = 100\n
    <<"v", "a", "r", ".", " ", "i", "n", "t", " ", "s", "c", "o", "r", "e",
      " ", "=", " ", "1", "0", "0", "\n">>,
    \* 4: var. float pi = 3.14\n
    <<"v", "a", "r", ".", " ", "f", "l", "o", "a", "t", " ", "p", "i", " ",
      "=", " ", "3", ".", "1", "4", "\n">>,
    \* 5: const. int MAX_LIVES = 3\n
    <<"c", "o", "n", "s", "t", ".", " ", "i", "n", "t", " ", "M", "A", "X",
      "_", "L", "I", "V", "E", "S", " ", "=", " ", "3", "\n">>,
    \* 6: var. char grade = "A"\n
    <<"v", "a", "r", ".", " ", "c", "h", "a", "r", " ", "g", "r", "a", "d",
      "e", " ", "=", " ", "\"", "A", "\"", "\n">>,
    \* 7: dsply ["Hello World"]!\n
    <<"d", "s", "p", "l", "y", " ", "[", "\"", "H", "e", "l", "l", "o", " ",
      "W", "o", "r", "l", "d", "\"", "]", "!", "\n">>,
    \* 8: dsply@[x * 2]!!\n
    <<"d", "s", "p", "l", "y", "@", "[", "x", " ", "*", " ", "2", "]", "!",
      "!", "\n">>,
    \* 9: total = a + b * (c - 5)\n
    <<"t", "o", "t", "a", "l", " ", "=", " ", "a", " ", "+", " ", "b", " ",
      "*", " ", "(", "c", " ", "-", " ", "5", ")", "\n">>
    >>

ReadmeSources ==
    {Flatten([k \in DOMAIN f |-> ReadmeLines[f[k]]]) :
        f \in UNION {[1..n -> 1..Len(ReadmeLines)] : n \in 0..MaxLines}}

\* The operands emitInstruction is called with, one call at a time
RegisterForms == {"DADDU", "DSUBU", "DMULTU", "DDIVU", "MFLO"}

ImmediateForms == {"DADDIU", "LD", "SD", "SB", "LBU"}

RegisterNumbers == {0, 1, 2, 21, 31, 32, 33, 63}

Immediates == {0, 1, 255, 65535, 65536, 65537, 196612}

\* Pieces of source text: names, literals (one with a newline inside, one
\* left open), line ends, blanks, comments, and characters tokenize rejects
Pieces == <<
    \* 1: x
    <<"x">>,
    \* 2: "a\nb"
    <<"\"", "a", "\n", "b", "\"">>,
    \* 3: "c"
    <<"\"", "c", "\"">>,
    \* 4: \n
    <<"\n">>,
    \* 5:  
    <<" ">>,
    \* 6: //c\n
    <<"/", "/", "c", "\n">>,
    \* 7: #c
    <<"#", "c">>,
    \* 8: 12
    <<"1", "2">>,
    \* 9: +=
    <<"+", "=">>,
    \* 10: '
    <<"'">>,
    \* 11: $
    <<"$">>,
    \* 12: "ab
    <<"\"", "a", "b">>,
    \* 13: \r
    <<"\r">>,
    \* 14: dsply@
    <<"d", "s", "p", "l", "y", "@">>
    >>

PieceSources ==
    {Flatten([k \in DOMAIN f |-> Pieces[f[k]]]) :
        f \in UNION {[1..n -> 1..Len(Pieces)] : n \in 0..MaxFrags}}

\* Display statements with every kind of payload, and a declaration of a
DisplayLines == <<
    \* 1: var.int a=1\n
    <<"v", "a", "r", ".", "i", "n", "t", " ", "a", "=", "1", "\n">>,
    \* 2: dsply["hi"]\n
    <<"d", "s", "p", "l", "y", "[", "\"", "h", "i", "\"", "]", "\n">>,
    \* 3: dsply[a]\n
    <<"d", "s", "p", "l", "y", "[", "a", "]", "\n">>,
    \* 4: dsply[7]\n
    <<"d", "s", "p", "l", "y", "[", "7", "]", "\n">>,
    \* 5: dsply["A"]\n
    <<"d", "s", "p", "l", "y", "[", "\"", "A", "\"", "]", "\n">>,
    \* 6: dsply[a+1]\n
    <<"d", "s", "p", "l", "y", "[", "a", "+", "1", "]", "\n">>,
    \* 7: dsply@[a]\n
    <<"d", "s", "p", "l", "y", "@", "[", "a", "]", "\n">>,
    \* 8: dsply@[(a)]\n
    <<"d", "s", "p", "l", "y", "@", "[", "(", "a", ")", "]", "\n">>,
    \* 9: dsply@[7]\n
    <<"d", "s", "p", "l", "y", "@", "[", "7", "]", "\n">>,
    \* 10: dsply@["hi"]\n
    <<"d", "s", "p", "l", "y", "@", "[", "\"", "h", "i", "\"", "]", "\n">>,
    \* 11: dsply@[a+1]!\n
    <<"d", "s", "p", "l", "y", "@", "[", "a", "+", "1", "]", "!", "\n">>,
    \* 12: dsply@[b]\n
    <<"d", "s", "p", "l", "y", "@", "[", "b", "]", "\n">>,
    \* 13: dsply@["A"]!!\n
    <<"d", "s", "p", "l", "y", "@", "[", "\"", "A", "\"", "]", "!", "!",
      "\n">>,
    \* 14: dsply@[]\n
    <<"d", "s", "p", "l", "y", "@", "[", "]", "\n">>,
    \* 15: dsply["hi"
    <<"d", "s", "p", "l", "y", "[", "\"", "h", "i", "\"">>,
    \* 16: dsply\n
    <<"d", "s", "p", "l", "y", "\n">>,
    \* 17: dsply@[a*(a-2)]\n
    <<"d", "s", "p", "l", "y", "@", "[", "a", "*", "(", "a", "-", "2", ")",
      "]", "\n">>
    >>

DisplaySources ==
    {Flatten([k \in DOMAIN f |-> DisplayLines[f[k]]]) :
        f \in UNION {[1..n -> 1..Len(DisplayLines)] : n \in 0..MaxLines}}

\* Declarations with each keyword, and with none, in the place of the type
DeclarationLines == <<
    \* 1: var. int x\n
    <<"v", "a", "r", ".", " ", "i", "n", "t", " ", "x", "\n">>,
    \* 2: var. float y = 1\n
    <<"v", "a", "r", ".", " ", "f", "l", "o", "a", "t", " ", "y", " ", "=",
      " ", "1", "\n">>,
    \* 3: const. char c = "A"\n
    <<"c", "o", "n", "s", "t", ".", " ", "c", "h", "a", "r", " ", "c", " ",
      "=", " ", "\"", "A", "\"", "\n">>,
    \* 4: var. const x\n
    <<"v", "a", "r", ".", " ", "c", "o", "n", "s", "t", " ", "x", "\n">>,
    \* 5: var. boot x\n
    <<"v", "a", "r", ".", " ", "b", "o", "o", "t", " ", "x", "\n">>,
    \* 6: const. dsply k = 1\n
    <<"c", "o", "n", "s", "t", ".", " ", "d", "s", "p", "l", "y", " ", "k",
      " ", "=", " ", "1", "\n">>,
    \* 7: var. x\n
    <<"v", "a", "r", ".", " ", "x", "\n">>,
    \* 8: var. 5\n
    <<"v", "a", "r", ".", " ", "5", "\n">>,
    \* 9: var int z\n
    <<"v", "a", "r", " ", "i", "n", "t", " ", "z", "\n">>,
    \* 10: var. end q = z\n
    <<"v", "a", "r", ".", " ", "e", "n", "d", " ", "q", " ", "=", " ", "z",
      "\n">>,
    \* 11: const..var w\n
    <<"c", "o", "n", "s", "t", ".", ".", "v", "a", "r", " ", "w", "\n">>
    >>

DeclarationSources ==
    {Flatten([k \in DOMAIN f |-> DeclarationLines[f[k]]]) :
        f \in UNION {[1..n -> 1..Len(DeclarationLines)] : n \in 0..MaxLines}}

-----------------------------------------------------------------------------
(* PART 4: the /compile handler *)

NoFile == [exists |-> FALSE, content |-> <<>>]

NoResponse == [sent |-> FALSE, failed |-> FALSE, output |-> "",
               program |-> <<>>, mips |-> <<>>, binary |-> <<>>]

\* the simulator object as a record of its fields
Sim ==
    [tokens |-> tokens, pos |-> pos, symbolTable |-> symbolTable,
     currentAddr |-> currentAddr, dataSection |-> dataSection,
     codeSection |-> codeSection, binaryOutput |-> binaryOutput,
     tempRegCount |-> tempRegCount, emitted |-> emitted,
     thrown |-> thrown, ret |-> Undefined]

\* the simulator's fields become those of s; a raised exception goes to the
\* catch clause
Becomes(s) ==
    /\ tokens' = s.tokens
    /\ pos' = s.pos
    /\ symbolTable' = s.symbolTable
    /\ currentAddr' = s.currentAddr
    /\ dataSection' = s.dataSection
    /\ codeSection' = s.codeSection
    /\ binaryOutput' = s.binaryOutput
    /\ tempRegCount' = s.tempRegCount
    /\ emitted' = s.emitted
    /\ thrown' = s.thrown

\* the globals of parser.y when the interpreter starts; at is the place of
\* the parser, out what it printed, log the rules it reduced
NewInterpreter ==
    [sym_table |-> << >>, current_data_type |-> 0, current_is_const |-> 0,
     at |-> "statement", out |-> << >>, log |-> << >>]

Init ==
    /\ pc = "idle"
    /\ code = <<>>
    /\ tokens = <<>>
    /\ pos = 0
    /\ symbolTable = <<>>
    /\ currentAddr = 0
    /\ dataSection = <<".data">>
    /\ codeSection = <<".code">>
    /\ binaryOutput = <<>>
    /\ tempRegCount = 0
    /\ emitted = <<>>
    /\ thrown = NoError
    /\ mips = <<>>
    /\ binary = <<>>
    /\ tempFile = NoFile
    /\ response = NoResponse
    /\ served = 0
    /\ sessions = <<>>
    /\ children = <<>>
    /\ interp = NewInterpreter

\* app.post("/compile") up to new CompilerSimulator()
Accept(c) ==
    /\ code' = c
    /\ mips' = <<>>
    /\ binary' = <<>>
    /\ Becomes(NewSimulator)
    /\ response' = NoResponse
    /\ pc' = "tokenize"
    /\ UNCHANGED <<tempFile, served, sessions, children, interp>>

\* one request, with any source
Request == pc = "idle" /\ served = 0 /\ \E c \in Sources : Accept(c)

\* one request after the other, each with one of a few programs
SessionRequest ==
    pc = "idle" /\ served < MaxSessions /\ \E c \in SessionSources : Accept(c)

\* one request, with a declaration initialised by an expression
ExprRequest == pc = "idle" /\ served = 0 /\ \E c \in ExprSources : Accept(c)

\* simulator.tokenize(code)
Tokenize ==
    /\ pc = "tokenize"
    /\ \E s \in {tokenize(Sim, code)} :
           /\ Becomes(s)
           /\ pc' = IF Failed(s) THEN "catch" ELSE "parse"
    /\ UNCHANGED <<code, mips, binary, tempFile, response, served, sessions,
                   children, interp>>

\* One iteration of the while loop of parse(): the statement at pos
InLoop == pc = "parse" /\ pos < Len(tokens)

Statement(after) ==
    /\ \E s \in {after} :
           /\ Becomes(s)
           /\ pc' = IF Failed(s) THEN "catch" ELSE "parse"
    /\ UNCHANGED <<code, mips, binary, tempFile, response, served, sessions,
                   children, interp>>

IsBoundary(t) == Text(t.value) = "boot" \/ Text(t.value) = "end"

IsDeclaration(t) == Text(t.value) = "var" \/ Text(t.value) = "const"

IsPrint(t) == Text(t.value) = "dsply" \/ Text(t.value) = "dsply@"

SkipBoot ==
    /\ InLoop
    /\ Text(peek(Sim).value) = "boot"
    /\ Statement([Sim EXCEPT !.pos = @ + 1])

SkipEnd ==
    /\ InLoop
    /\ Text(peek(Sim).value) = "end"
    /\ Statement([Sim EXCEPT !.pos = @ + 1])

Declaration ==
    /\ InLoop
    /\ ~IsBoundary(peek(Sim))
    /\ IsDeclaration(peek(Sim))
    /\ Statement(parseDeclaration(Sim))

Assignment ==
    /\ InLoop
    /\ ~IsBoundary(peek(Sim))
    /\ ~IsDeclaration(peek(Sim))
    /\ peek(Sim).type = VARIABLE_
    /\ Statement(parseAssignment(Sim))

Display ==
    /\ InLoop
    /\ ~IsBoundary(peek(Sim))
    /\ ~IsDeclaration(peek(Sim))
    /\ peek(Sim).type # VARIABLE_
    /\ IsPrint(peek(Sim))
    /\ Statement(parsePrint(Sim))

UnexpectedToken ==
    /\ InLoop
    /\ ~IsBoundary(peek(Sim))
    /\ ~IsDeclaration(peek(Sim))
    /\ peek(Sim).type # VARIABLE_
    /\ ~IsPrint(peek(Sim))
    /\ Statement(error(Sim, "Unexpected token '" \o Text(peek(Sim).value)
                            \o "'"))

\* parse() returns; the handler keeps the output, writes the temp file and
\* starts the interpreter
Compiled ==
    /\ pc = "parse"
    /\ ~(pos < Len(tokens))
    /\ mips' = dataSection \o codeSection
    /\ binary' = binaryOutput
    /\ tempFile' = [exists |-> TRUE, content |-> code]
    /\ pc' = "exec"
    /\ UNCHANGED <<code, simVars, emitted, thrown, response, served, sessions,
                   children, interp>>

\* res.json(r); sessions keeps the request with what its simulator emitted
Respond(r) ==
    /\ response' = r
    /\ sessions' = Append(sessions,
                          [code |-> code, response |-> r, emitted |-> emitted,
                           codeSection |-> codeSection,
                           binaryOutput |-> binaryOutput])
    /\ served' = served + 1
    /\ pc' = "idle"

\* an answer that carries what the simulator had produced before it failed
PartialResponse(err) ==
    [sent |-> TRUE, failed |-> TRUE,
     output |-> "Transpiler Error: " \o ErrorMessage(err),
     program |-> <<>>, mips |-> dataSection \o codeSection,
     binary |-> binaryOutput]

\* the object the catch clause answers with
ErrorResponse(err) ==
    [sent |-> TRUE, failed |-> TRUE,
     output |-> "Transpiler Error: " \o ErrorMessage(err),
     program |-> <<>>, mips |-> <<>>, binary |-> <<>>]

\* a catch clause without its return: the handler goes on to the interpreter
CatchContinues ==
    /\ pc = "catch"
    /\ tempFile' = [exists |-> TRUE, content |-> code]
    /\ pc' = "exec"
    /\ UNCHANGED <<code, simVars, emitted, thrown, mips, binary, response,
                   served, sessions, children, interp>>

\* the catch clause
Catch ==
    /\ pc = "catch"
    /\ Respond(ErrorResponse(thrown))
    /\ UNCHANGED <<code, simVars, emitted, thrown, mips, binary, tempFile,
                   children, interp>>

\* the callback of exec: the interpreter has run the program of the temp file
ExecCallback ==
    /\ pc = "exec"
    /\ tempFile' = NoFile
    /\ Respond([sent |-> TRUE, failed |-> FALSE, output |-> "stdout",
                program |-> tempFile.content, mips |-> mips,
                binary |-> binary])
    /\ UNCHANGED <<code, simVars, emitted, thrown, mips, binary, children,
                   interp>>

Next ==
    \/ Request
    \/ Tokenize
    \/ SkipBoot
    \/ SkipEnd
    \/ Declaration
    \/ Assignment
    \/ Display
    \/ UnexpectedToken
    \/ Compiled
    \/ Catch
    \/ ExecCallback

Spec == Init /\ [][Next]_vars

\* the server answering one request after the other
NextSessions ==
    \/ SessionRequest
    \/ Tokenize
    \/ SkipBoot
    \/ SkipEnd
    \/ Declaration
    \/ Assignment
    \/ Display
    \/ UnexpectedToken
    \/ Compiled
    \/ Catch
    \/ ExecCallback

SpecSessions == Init /\ [][NextSessions]_vars

\* The handler that has left the translator goes on: writeFileSync and exec
\* follow parse in the same call, the catch clause answers at once, and the
\* event loop calls the callback of exec when the interpreter has ended.
SpecAnswering ==
    /\ SpecSessions
    /\ WF_vars(Compiled)
    /\ WF_vars(Catch)
    /\ WF_vars(ExecCallback)

\* Requests that overlap.  The handler runs to its end without interruption
\* (tokenize, parse, writeFileSync and exec are one synchronous call), but
\* the interpreter that exec starts runs beside the server, and its callback
\* is run by the event loop when no handler is running.

\* the interpreter processes whose callback has not run yet
Running == {k \in 1..Len(children) : children[k].state # "answered"}

\* a request arrives while earlier ones wait for their interpreter
ConcurrentRequest ==
    /\ pc = "idle"
    /\ served + Cardinality(Running) < MaxSessions
    /\ \E c \in SessionSources : Accept(c)

\* exec(`${COMPILER_PATH} < ${tempFile}`, callback): the process is started
\* and the handler returns
Exec ==
    /\ pc = "exec"
    /\ children' = Append(children,
                          [state |-> "started", code |-> code, mips |-> mips,
                           binary |-> binary, emitted |-> emitted,
                           codeSection |-> codeSection,
                           binaryOutput |-> binaryOutput,
                           program |-> <<>>, missing |-> FALSE])
    /\ pc' = "idle"
    /\ UNCHANGED <<code, simVars, emitted, thrown, mips, binary, tempFile,
                   response, served, sessions, interp>>

\* the shell of process k opens temp_code.txt for the redirection and the
\* interpreter reads the program from it; without the file the shell fails
Interpret(k) ==
    /\ children[k].state = "started"
    /\ children' = [children EXCEPT
                       ![k].state = "exited",
                       ![k].program = tempFile.content,
                       ![k].missing = ~tempFile.exists]
    /\ UNCHANGED <<pc, code, simVars, emitted, thrown, mips, binary, tempFile,
                   response, served, sessions, interp>>

\* what the callback of process k answers with
Answer(child) ==
    [sent |-> TRUE, failed |-> child.missing,
     output |-> IF child.missing THEN "stderr" ELSE "stdout",
     program |-> child.program, mips |-> child.mips, binary |-> child.binary]

\* the callback of exec for process k: the temp file is removed if it is
\* there and the request is answered
Callback(k) ==
    /\ pc = "idle"
    /\ children[k].state = "exited"
    /\ tempFile' = NoFile
    /\ response' = Answer(children[k])
    /\ sessions' = Append(sessions,
                          [code |-> children[k].code,
                           response |-> Answer(children[k]),
                           emitted |-> children[k].emitted,
                           codeSection |-> children[k].codeSection,
                           binaryOutput |-> children[k].binaryOutput])
    /\ served' = served + 1
    /\ children' = [children EXCEPT ![k].state = "answered"]
    /\ UNCHANGED <<pc, code, simVars, emitted, thrown, mips, binary, interp>>

Interpreted == \E k \in 1..Len(children) : Interpret(k)

CalledBack == \E k \in 1..Len(children) : Callback(k)

NextConcurrent ==
    \/ ConcurrentRequest
    \/ Tokenize
    \/ SkipBoot
    \/ SkipEnd
    \/ Declaration
    \/ Assignment
    \/ Display
    \/ UnexpectedToken
    \/ Compiled
    \/ Catch
    \/ Exec
    \/ Interpreted
    \/ CalledBack

SpecConcurrent == Init /\ [][NextConcurrent]_vars

-----------------------------------------------------------------------------
(* PART 5: the interpreter (parser.y) that exec runs on the temp file.  Its *)
(* state is the record interp of its globals; its steps are the reductions *)
(* of the grammar's rules that have an action.                             *)

\* the decl_item and assignment rules one run of the interpreter reduces
MaxReductions == 3

TypeInt == 0

TypeFloat == 1

TypeChar == 2

\* the index of the symbol in sym_table, 0 for NULL
find_symbol(I, name) ==
    IF \E k \in 1..Len(I.sym_table) : I.sym_table[k].name = name
    THEN CHOOSE k \in 1..Len(I.sym_table) :
             /\ I.sym_table[k].name = name
             /\ \A j \in 1..(k - 1) : I.sym_table[j].name # name
    ELSE 0

printf(I, text) == [I EXCEPT !.out = Append(@, text)]

add_symbol(I, name, type) ==
    IF find_symbol(I, name) # 0 THEN I
    ELSE [I EXCEPT !.sym_table =
              Append(@, [name |-> name, type |-> type, val |-> 0,
                         is_const |-> I.current_is_const])]

update_symbol(I, name, val) ==
    IF find_symbol(I, name) # 0
    THEN [I EXCEPT !.sym_table[find_symbol(I, name)].val = val]
    ELSE printf(I, "Error: Variable " \o name \o " not declared.")

\* get_symbol: the interpreter after the call, with the message if any
get_symbol(I, name) ==
    IF find_symbol(I, name) # 0 THEN I
    ELSE printf(I, "Error: Variable " \o name \o " used before declaration.")

\* Expressions, as the parser reduces them: a number, a name, or a name
\* plus a number
Number(n) == [rule |-> "NUMBER_INT", n |-> n, name |-> ""]

Ident(name) == [rule |-> "IDENT", n |-> 0, name |-> name]

Plus(name, n) == [rule |-> "PLUS", n |-> n, name |-> name]

\* factor: IDENT
FactorIdent(I, name) ==
    IF find_symbol(I, name) # 0
    THEN [I |-> I, val |-> I.sym_table[find_symbol(I, name)].val,
          type |-> I.sym_table[find_symbol(I, name)].type]
    ELSE [I |-> get_symbol(I, name), val |-> 0, type |-> TypeInt]

\* expression: expression PLUS term, with a name on the left and a number
\* on the right
ExpressionPlus(left, n) ==
    [I |-> left.I, val |-> left.val + n,
     type |-> IF left.type = TypeFloat THEN TypeFloat ELSE TypeInt]

\* the value of an expression and the interpreter after its reductions
expression(I, e) ==
    IF e.rule = "NUMBER_INT" THEN [I |-> I, val |-> e.n, type |-> TypeInt]
    ELSE IF e.rule = "IDENT" THEN FactorIdent(I, e.name)
    ELSE ExpressionPlus(FactorIdent(I, e.name), e.n)

\* the value a string literal gives a symbol: the character behind the
\* opening quote if strlen, quotes included, is 3 or more
StringValue(chars) == IF Len(chars) + 2 >= 3 THEN CharCode(chars[1]) ELSE 0

\* a rule has been reduced for a name; added tells whether the name was new
Logged(I, rule, name, added) ==
    [I EXCEPT !.log = Append(@, [rule |-> rule, name |-> name,
                                 added |-> added,
                                 is_const |-> I.current_is_const])]

\* declaration: VAR DOT { current_is_const = 0; } type, and the same with
\* CONST, in front of the decl_list
declaration(I, is_const, type) ==
    [I EXCEPT !.current_is_const = is_const, !.current_data_type = type,
              !.at = "decl_list"]

\* decl_item: IDENT
decl_item_plain(I, name) == add_symbol(I, name, I.current_data_type)

\* decl_item: IDENT ASSIGN expression, the expression reduced as v
decl_item_expression(v, name) ==
    update_symbol(add_symbol(v.I, name, v.I.current_data_type), name, v.val)

\* decl_item: IDENT ASSIGN STRING_LITERAL
decl_item_string(I, name, chars) ==
    update_symbol(add_symbol(I, name, TypeChar), name, StringValue(chars))

\* the operation of an assignment on the symbol's value
Assigned(op, old, val) ==
    CASE op = "ASSIGN" -> val
      [] op = "ADD_ASSIGN" -> old + val
      [] op = "SUB_ASSIGN" -> old - val
      [] op = "MUL_ASSIGN" -> old * val
      [] op = "DIV_ASSIGN" -> old \div val

\* assignment: the body of every rule's action, val being the right side
assignment_body(I, name, op, val) ==
    IF find_symbol(I, name) = 0 THEN get_symbol(I, name)
    ELSE IF I.sym_table[find_symbol(I, name)].is_const = 1
    THEN printf(I, "Error: Cannot reassign constant '" \o name \o "'.")
    ELSE update_symbol(I, name,
             Assigned(op, I.sym_table[find_symbol(I, name)].val, val))

\* assignment: IDENT op expression, the expression reduced as v
assignment(v, name, op) == assignment_body(v.I, name, op, v.val)

\* the names, numbers, expressions and literals of the programs run
Names == {"k", "v"}

Numbers == {2, 9}

Expressions ==
    {Number(n) : n \in Numbers} \cup {Ident(name) : name \in Names}
    \cup {Plus("k", 1)}

Literals == {<<"A">>, << >>}

AssignOperators ==
    {"ASSIGN", "ADD_ASSIGN", "SUB_ASSIGN", "MUL_ASSIGN", "DIV_ASSIGN"}

\* the quotient of a division is kept a whole number
Divisible(I, name, op, val) ==
    op = "DIV_ASSIGN" /\ find_symbol(I, name) # 0
    /\ I.sym_table[find_symbol(I, name)].is_const = 0 =>
        val > 0 /\ I.sym_table[find_symbol(I, name)].val % val = 0

Interprets(I) ==
    /\ interp' = I
    /\ UNCHANGED <<pc, code, simVars, emitted, thrown, mips, binary, tempFile,
                   response, served, sessions, children>>

\* the interpreter is at the start of a statement and has reductions left
AtNextStatement ==
    interp.at = "statement" /\ Len(interp.log) < MaxReductions

DeclarationStart ==
    /\ AtNextStatement
    /\ \E is_const \in {0, 1}, type \in {TypeInt, TypeFloat, TypeChar} :
           Interprets(declaration(interp, is_const, type))

\* the end of a decl_list, behind at least one decl_item
DeclarationEnd ==
    /\ interp.at = "decl_item"
    /\ Interprets([interp EXCEPT !.at = "statement"])

InDeclList ==
    interp.at \in {"decl_list", "decl_item"}
    /\ Len(interp.log) < MaxReductions

DeclItemPlain ==
    /\ InDeclList
    /\ \E name \in Names :
           Interprets([Logged(decl_item_plain(interp, name), "decl_item",
                              name, find_symbol(interp, name) = 0)
                       EXCEPT !.at = "decl_item"])

DeclItemExpression ==
    /\ InDeclList
    /\ \E name \in Names, e \in Expressions :
           Interprets([Logged(decl_item_expression(expression(interp, e),
                                                   name),
                              "decl_item ASSIGN", name,
                              find_symbol(interp, name) = 0)
                       EXCEPT !.at = "decl_item"])

DeclItemString ==
    /\ InDeclList
    /\ \E name \in Names, chars \in Literals :
           Interprets([Logged(decl_item_string(interp, name, chars),
                              "decl_item ASSIGN", name,
                              find_symbol(interp, name) = 0)
                       EXCEPT !.at = "decl_item"])

AssignExpression ==
    /\ AtNextStatement
    /\ \E name \in Names, op \in AssignOperators, e \in Expressions :
           /\ Divisible(interp, name, op, expression(interp, e).val)
           /\ Interprets(Logged(assignment(expression(interp, e), name, op),
                                op, name, FALSE))

\* assignment: IDENT ASSIGN STRING_LITERAL
AssignString ==
    /\ AtNextStatement
    /\ \E name \in Names, chars \in Literals :
           Interprets(Logged(assignment_body(interp, name, "ASSIGN",
                                             StringValue(chars)),
                             "ASSIGN", name, FALSE))

NextInterpreter ==
    \/ DeclarationStart
    \/ DeclarationEnd
    \/ DeclItemPlain
    \/ DeclItemExpression
    \/ DeclItemString
    \/ AssignExpression
    \/ AssignString

SpecInterpreter == Init /\ [][NextInterpreter]_vars

\* the server compiling one initialised declaration
NextExpr ==
    \/ ExprRequest
    \/ Tokenize
    \/ Declaration
    \/ Compiled
    \/ ExecCallback

SpecExpr == Init /\ [][NextExpr]_vars

\* one request, with a program of statements
StatementRequest ==
    pc = "idle" /\ served = 0 /\ \E c \in StatementSources : Accept(c)

NextStatements ==
    \/ StatementRequest
    \/ Tokenize
    \/ Declaration
    \/ Assignment
    \/ Display
    \/ Compiled
    \/ Catch
    \/ ExecCallback

SpecStatements == Init /\ [][NextStatements]_vars

\* one request, with lines of the syntax guide
ReadmeRequest ==
    pc = "idle" /\ served = 0 /\ \E c \in ReadmeSources : Accept(c)

NextReadme ==
    \/ ReadmeRequest
    \/ Tokenize
    \/ SkipBoot
    \/ SkipEnd
    \/ Declaration
    \/ Assignment
    \/ Display
    \/ UnexpectedToken
    \/ Compiled
    \/ Catch
    \/ ExecCallback

SpecReadme == Init /\ [][NextReadme]_vars

\* One call of emitInstruction on a new simulator, its operands drawn from
\* RegisterNumbers and Immediates
Emit(instr, rd, rs, rt, imm) ==
    /\ Becomes(emitInstruction(Sim, instr, rd, rs, rt, imm, instr))
    /\ UNCHANGED <<pc, code, mips, binary, tempFile, response, served,
                   sessions, children, interp>>

EmitRegisterForm ==
    /\ pc = "idle"
    /\ emitted = <<>>
    /\ \E instr \in RegisterForms :
           \E rd \in RegisterNumbers, rs \in RegisterNumbers,
              rt \in RegisterNumbers : Emit(instr, rd, rs, rt, 0)

EmitImmediateForm ==
    /\ pc = "idle"
    /\ emitted = <<>>
    /\ \E instr \in ImmediateForms :
           \E rs \in RegisterNumbers, rt \in RegisterNumbers,
              imm \in Immediates : Emit(instr, 0, rs, rt, imm)

\* the register handle of a number
Handle(n) == <<"R">> \o Decimal(n)

\* the call parseExpression makes for left + right or left - right
EmitOperation ==
    /\ pc = "idle"
    /\ emitted = <<>>
    /\ \E op \in {"+", "-"} :
           \E left \in RegisterNumbers, right \in RegisterNumbers,
              result \in RegisterNumbers :
               /\ Becomes(ExpressionEmit(Sim, op, Handle(left), Handle(right),
                                         Handle(result)))
               /\ UNCHANGED <<pc, code, mips, binary, tempFile, response,
                              served, sessions, children, interp>>

NextEmit == EmitRegisterForm \/ EmitImmediateForm \/ EmitOperation

SpecEmit == Init /\ [][NextEmit]_vars

\* one request whose source is put together from Pieces, up to the end of
\* simulator.tokenize(code)
PieceRequest == pc = "idle" /\ served = 0 /\ \E c \in PieceSources : Accept(c)

NextTokens == PieceRequest \/ Tokenize

SpecTokens == Init /\ [][NextTokens]_vars

\* one request, with a program of display statements
DisplayRequest ==
    pc = "idle" /\ served = 0 /\ \E c \in DisplaySources : Accept(c)

NextDisplay ==
    \/ DisplayRequest
    \/ Tokenize
    \/ Declaration
    \/ Display
    \/ Compiled
    \/ Catch
    \/ ExecCallback

SpecDisplay == Init /\ [][NextDisplay]_vars

\* one request, with a program of declarations
DeclarationRequest ==
    pc = "idle" /\ served = 0 /\ \E c \in DeclarationSources : Accept(c)

NextDeclarations ==
    \/ DeclarationRequest
    \/ Tokenize
    \/ Declaration
    \/ Compiled
    \/ Catch
    \/ ExecCallback

SpecDeclarations == Init /\ [][NextDeclarations]_vars

-----------------------------------------------------------------------------
(* C1: after any sequence of successful declarations the address of each   *)
(* symbol is the sum of the storage sizes (1 for char, 8 for every other   *)
(* type) of the symbols declared before it; the first symbol has address 0 *)
(* and no two symbols share an address.                                    *)

RECURSIVE SizesBefore(_, _)
SizesBefore(table, i) ==
    IF i = 1 THEN 0
    ELSE SizesBefore(table, i - 1)
         + (IF table[i - 1].type = "char" THEN 1 ELSE 8)

C1_AddressIsSumOfSizes ==
    /\ \A i \in 1..Len(symbolTable) :
          symbolTable[i].addr = SizesBefore(symbolTable, i)
    /\ Len(symbolTable) > 0 => symbolTable[1].addr = 0
    /\ \A i, j \in 1..Len(symbolTable) :
          i # j => symbolTable[i].addr # symbolTable[j].addr

\* three symbols, the char one in the middle: addresses 0, 8 and 9
C1_Witness ==
    /\ Len(symbolTable) = 3
    /\ symbolTable[1].type = "int"
    /\ symbolTable[2].type = "char"
    /\ symbolTable[3].addr = 9

-----------------------------------------------------------------------------
(* C2: a declaration whose name is already in the symbol table fails with  *)
(* the redeclaration error and leaves the symbol table (so the existing    *)
(* symbol's type, address and constness and the table's length), the next- *)
(* address counter and the data section as they were.                      *)

\* the statement at pos is scope, dots, a keyword and then the name n
DeclaresName(n) ==
    /\ InLoop
    /\ ~IsBoundary(peek(Sim))
    /\ IsDeclaration(peek(Sim))
    /\ \E d \in 0..Len(tokens) :
          /\ pos + 1 + d + 2 <= Len(tokens)
          /\ \A k \in 1..d : Text(tokens[pos + 1 + k].value) = "."
          /\ Text(tokens[pos + 1 + d + 1].value) # "."
          /\ tokens[pos + 1 + d + 1].type = KEYWORD
          /\ tokens[pos + 1 + d + 2].type = VARIABLE_
          /\ Text(tokens[pos + 1 + d + 2].value) = n

KnownNames == {symbolTable[k].name : k \in 1..Len(symbolTable)}

C2_RedeclarationRejected ==
    [][\A n \in KnownNames :
          DeclaresName(n) =>
             /\ pc' = "catch"
             /\ thrown'.message = "Redeclaration of variable '" \o n \o "'"
             /\ symbolTable' = symbolTable
             /\ currentAddr' = currentAddr
             /\ dataSection' = dataSection]_vars

\* var int a was redeclared as const char a
C2_Witness ==
    /\ pc = "catch"
    /\ thrown.message = "Redeclaration of variable 'a'"
    /\ Len(symbolTable) = 1
    /\ symbolTable[1] = [name |-> "a", type |-> "int", addr |-> 0,
                         isConst |-> FALSE]
    /\ \E k \in 1..Len(tokens) : Text(tokens[k].value) = "const"

-----------------------------------------------------------------------------
(* C3: a declaration with a comma-separated list of declarators, var. int  *)
(* a = 1, b = 2, compiles: it never fails, and when parse() has returned   *)
(* the symbols a and b are declared in this order at the addresses 0 and 8 *)
(* and the instructions emitted are an immediate load and a store for a    *)
(* and then an immediate load and a store for b.                           *)

CommaDeclaration == Fragments[7]

C3_CommaDeclaratorsCompile ==
    code = CommaDeclaration =>
        /\ pc # "catch"
        /\ pc = "exec" =>
              /\ [k \in 1..Len(symbolTable) |->
                     <<symbolTable[k].name, symbolTable[k].addr>>]
                 = <<<<"a", 0>>, <<"b", 8>>>>
              /\ [k \in 1..Len(emitted) |-> emitted[k].instr]
                 = <<"DADDIU", "SD", "DADDIU", "SD">>

-----------------------------------------------------------------------------
(* C4: an assignment statement, whatever its operator (=, +=, -=, *=, /=), *)
(* whose target is a symbol declared with const fails with the error       *)
(* "Cannot reassign constant" and appends nothing to the code section and  *)
(* nothing to the binary words.                                            *)

AssignmentOperators == {"=", "+=", "-=", "*=", "/="}

ConstNames ==
    {symbolTable[k].name : k \in {j \in 1..Len(symbolTable) :
                                     symbolTable[j].isConst}}

\* the statement at pos assigns to the name n
AssignsTo(n) ==
    /\ InLoop
    /\ ~IsBoundary(peek(Sim))
    /\ ~IsDeclaration(peek(Sim))
    /\ peek(Sim).type = VARIABLE_
    /\ Text(peek(Sim).value) = n
    /\ tokenAt(Sim, 1).type = OPERATOR
    /\ Text(tokenAt(Sim, 1).value) \in AssignmentOperators

C4_ConstAssignmentRejected ==
    [][\A n \in ConstNames :
          (AssignsTo(n) /\ findSymbol(Sim, n).isConst) =>
             /\ pc' = "catch"
             /\ thrown'.message = "Cannot reassign constant '" \o n \o "'"
             /\ codeSection' = codeSection
             /\ binaryOutput' = binaryOutput]_vars

\* const char a = 2 emitted its load and store, then a -= 2 was rejected
\* with pos behind the target
C4_Witness ==
    /\ pc = "catch"
    /\ thrown.message = "Cannot reassign constant 'a'"
    /\ Text(peek(Sim).value) = "-="
    /\ Len(codeSection) = 3
    /\ Len(binaryOutput) = 2

-----------------------------------------------------------------------------
(* C5: for an initialiser built from integer literals, + - * / and         *)
(* parentheses, running the instructions emitted for it on a register      *)
(* machine leaves, in the register the final store reads (the register     *)
(* parseExpression returned), the value of the expression with * and /     *)
(* binding tighter than + and - and operators of one level applied left to *)
(* right.  The machine has a register for every handle the compiler       *)
(* allocates; the literals are below 2^16, every dividend is non-negative  *)
(* and every divisor positive.                                             *)

\* the number of parentheses open before token k
DepthBefore(ts, k) ==
    Cardinality({j \in 1..(k - 1) : ts[j].value = <<"(">>})
    - Cardinality({j \in 1..(k - 1) : ts[j].value = <<")">>})

\* the positions of the operators of ops outside every parenthesis
TopLevel(ts, ops) ==
    {k \in 1..Len(ts) : ts[k].value \in ops /\ DepthBefore(ts, k) = 0}

Last(ks) == CHOOSE k \in ks : \A j \in ks : j <= k

Apply(op, x, y) ==
    CASE op = "+" -> x + y
      [] op = "-" -> x - y
      [] op = "*" -> x * y
      [] op = "/" -> x \div y

\* the value of an expression, from its tokens: it is split at its last
\* + or - outside parentheses, else at its last * or / outside parentheses
RECURSIVE Value(_)

SplitAt(ts, k) ==
    Apply(Text(ts[k].value), Value(SubSeq(ts, 1, k - 1)),
          Value(SubSeq(ts, k + 1, Len(ts))))

ValueAt(ts, sums, products) ==
    IF sums # {} THEN SplitAt(ts, Last(sums))
    ELSE IF products # {} THEN SplitAt(ts, Last(products))
    ELSE IF ts[1].value = <<"(">> THEN Value(SubSeq(ts, 2, Len(ts) - 1))
    ELSE ParseInt(ts[1].value)

Value(ts) ==
    ValueAt(ts, TopLevel(ts, {<<"+">>, <<"-">>}),
            TopLevel(ts, {<<"*">>, <<"/">>}))

\* the register machine: a register for every number the instructions of
\* log name and the accumulator lo; R0 holds zero, and a register nothing
\* has written holds a value no expression of the model has
Machine0(log) ==
    [reg |-> [r \in {0} \cup {log[k].rd : k \in 1..Len(log)}
                      \cup {log[k].rs : k \in 1..Len(log)}
                      \cup {log[k].rt : k \in 1..Len(log)} |->
                 IF r = 0 THEN 0 ELSE 0 - 999983],
     lo |-> 0 - 999983]

Execute(m, e) ==
    CASE e.instr = "DADDIU" -> [m EXCEPT !.reg[e.rt] = m.reg[e.rs] + e.imm]
      [] e.instr = "DADDU" ->
            [m EXCEPT !.reg[e.rd] = m.reg[e.rs] + m.reg[e.rt]]
      [] e.instr = "DSUBU" ->
            [m EXCEPT !.reg[e.rd] = m.reg[e.rs] - m.reg[e.rt]]
      [] e.instr = "DMULTU" -> [m EXCEPT !.lo = m.reg[e.rs] * m.reg[e.rt]]
      [] e.instr = "DDIVU" -> [m EXCEPT !.lo = m.reg[e.rs] \div m.reg[e.rt]]
      [] e.instr = "MFLO" -> [m EXCEPT !.reg[e.rd] = m.lo]
      [] OTHER -> m

RECURSIVE Run(_, _)
Run(m, log) == IF log = <<>> THEN m ELSE Run(Execute(m, Head(log)), Tail(log))

\* the tokens of the initialiser, behind var . int a =
Initialiser == SubSeq(tokens, 6, Len(tokens))

\* the value in the register that the last instruction, the store, reads
Stored ==
    Run(Machine0(emitted), SubSeq(emitted, 1, Len(emitted) - 1))
        .reg[emitted[Len(emitted)].rs]

\* parse() has returned from a source that is var . int a = and an expression
InitialisedDeclaration ==
    /\ pc = "exec"
    /\ Len(tokens) > 5
    /\ [k \in 1..5 |-> Text(tokens[k].value)] = <<"var", ".", "int", "a", "=">>

C5_ExpressionValue ==
    InitialisedDeclaration =>
        /\ emitted[Len(emitted)].instr = "SD"
        /\ Stored = Value(Initialiser)

\* 2+3*4 was compiled to three loads, a multiply, a move, an add and the
\* store, and the register stored holds 14
C5_Witness ==
    /\ pc = "exec"
    /\ code = DeclarationHead \o <<"2", "+", "3", "*", "4">>
    /\ Len(emitted) = 7
    /\ Stored = 14

-----------------------------------------------------------------------------
(* C6: when a statement fails with the error "Undefined variable" for a    *)
(* name, the error carries a line and that line is the line of the         *)
(* identifier token that names it: the first identifier token of that name *)
(* from the start of the statement on.                                     *)

\* token k is the first identifier of its name from pos on
FirstReference(k) ==
    /\ k > pos
    /\ tokens[k].type = VARIABLE_
    /\ \A j \in (pos + 1)..(k - 1) :
          ~(tokens[j].type = VARIABLE_ /\ tokens[j].value = tokens[k].value)

C6_UndeclaredLineIsTokenLine ==
    [][\A k \in 1..Len(tokens) :
          (/\ pc = "parse"
           /\ pc' = "catch"
           /\ FirstReference(k)
           /\ thrown'.message
              = "Undefined variable '" \o Text(tokens[k].value) \o "'")
          => (thrown'.located /\ thrown'.line = tokens[k].line)]_vars

-----------------------------------------------------------------------------
(* C7: a source in which a display keyword (dsply or dsply@) is not        *)
(* followed by an opening bracket and a payload (a token other than the    *)
(* closing bracket) never compiles: when parse() has returned, every       *)
(* display keyword of the source has its bracket and its payload.          *)

HasPayload(k) ==
    /\ k + 2 <= Len(tokens)
    /\ tokens[k + 1].type = DELIMITER
    /\ Text(tokens[k + 1].value) = "["
    /\ ~(tokens[k + 2].type = DELIMITER /\ Text(tokens[k + 2].value) = "]")

C7_DisplayNeedsPayload ==
    pc = "exec" =>
        \A k \in 1..Len(tokens) :
            (tokens[k].type = KEYWORD /\ IsPrint(tokens[k])) => HasPayload(k)

-----------------------------------------------------------------------------
(* C8: every failure of tokenize or parse that reaches the catch clause is *)
(* an Error made by error() or by the tokenizer whose message carries the  *)
(* number of a source line.                                                *)

C8_FailureCarriesLine ==
    pc = "catch" => (thrown.name = "Error" /\ thrown.located)

-----------------------------------------------------------------------------
(* C9: when tokenize or parse has failed, the answer of the handler has an *)
(* empty mips and an empty binary, whatever the simulator had produced     *)
(* before the failure, and the simulator does nothing more: the statements *)
(* after the failing one are never parsed.                                 *)

C9_FailureHasNoOutput ==
    [][pc = "catch" =>
          /\ response'.sent
          /\ response'.failed
          /\ response'.mips = <<>>
          /\ response'.binary = <<>>
          /\ pc' = "idle"
          /\ UNCHANGED simVars]_vars

\* the failing statement came after a data entry and instructions, and
\* tokens were left behind it
C9_Witness ==
    /\ response.sent
    /\ response.failed
    /\ response.mips = <<>>
    /\ response.binary = <<>>
    /\ Len(dataSection) > 1
    /\ Len(codeSection) > 1
    /\ Len(binaryOutput) > 0
    /\ pos < Len(tokens)

-----------------------------------------------------------------------------
(* C10: two calls of emitInstruction with the same mnemonic, the same      *)
(* operand fields and the same assembly text, in whichever sessions and at *)
(* whichever place of them, append the same line to the code section and   *)
(* the same word to the binary output; and two sessions that compile the   *)
(* same source answer with the same failure flag, output, assembly and     *)
(* binary, whatever was compiled between them.                             *)

-----------------------------------------------------------------------------
(* What one statement did, read from the step of the statement loop        *)

\* the parser is about to run a declaration, an assignment or a display
AtStatement ==
    /\ InLoop
    /\ ~IsBoundary(peek(Sim))
    /\ \/ IsDeclaration(peek(Sim))
       \/ peek(Sim).type = VARIABLE_
       \/ IsPrint(peek(Sim))

\* the instructions the statement emitted
Appended == SubSeq(emitted', Len(emitted) + 1, Len(emitted'))

\* the opening parentheses among the tokens the statement consumed
OpenParens ==
    Cardinality({k \in (pos + 1)..pos' :
                    /\ tokens[k].type = DELIMITER
                    /\ Text(tokens[k].value) = "("})

WritesRegister(e) ==
    e.instr \in {"DADDIU", "LD", "LBU", "DADDU", "DSUBU", "MFLO"}

\* the register an instruction writes: the assembly text's first operand
Destination(e) == IF e.instr = "DADDIU" THEN e.rt ELSE e.rd

\* the destination registers of a piece of the log, in emission order
Written(log) ==
    [k \in 1..Len(SelectSeq(log, WritesRegister)) |->
        Destination(SelectSeq(log, WritesRegister)[k])]

(* C11: the register counter is zero at the start of every statement       *)
(* (declaration, simple or compound assignment, display), whatever earlier *)
(* statements used: after a statement that succeeded the counter is the    *)
(* number of handles this statement alone allocated (one per register      *)
(* written and one per opening parenthesis), and the first register a      *)
(* statement without parentheses writes is R1.                             *)
C11_CounterRestartsPerStatement ==
    [][AtStatement /\ thrown' = NoError =>
          /\ tempRegCount' = Len(Written(Appended)) + OpenParens
          /\ \A k \in 1..Len(Written(Appended)) :
                 Written(Appended)[k] \in 1..tempRegCount'
          /\ OpenParens = 0 /\ Written(Appended) # <<>> =>
                 Written(Appended)[1] = 1]_vars

\* a statement that wrote R1 right after the store of a statement that had
\* written R5
C11_Witness ==
    /\ pc = "parse"
    /\ \E k \in 1..Len(emitted) :
           /\ k + 2 <= Len(emitted)
           /\ WritesRegister(emitted[k]) /\ Destination(emitted[k]) = 5
           /\ emitted[k + 1].instr \in {"SD", "SB"}
           /\ WritesRegister(emitted[k + 2])
           /\ Destination(emitted[k + 2]) = 1

(* C12: within one statement no two instructions write the same            *)
(* destination register: the registers written by the instructions of one  *)
(* statement, in emission order, are strictly increasing, whether the       *)
(* statement succeeds or fails.                                            *)
C12_DestinationsIncrease ==
    [][AtStatement =>
          \A j \in 1..Len(Written(Appended)), k \in 1..Len(Written(Appended)) :
              j < k => Written(Appended)[j] < Written(Appended)[k]]_vars

\* a statement whose multiplication wrote R4 and whose addition then wrote
\* R5, after three loads
C12_Witness ==
    /\ thrown = NoError
    /\ \E k \in 1..Len(emitted) :
           /\ k + 1 <= Len(emitted)
           /\ emitted[k].instr = "MFLO" /\ emitted[k].rd = 4
           /\ emitted[k + 1].instr = "DADDU" /\ emitted[k + 1].rd = 5

-----------------------------------------------------------------------------
\* program: BOOT statement_list END, on the token list: boot first, end
\* last, and neither of the two in between
Enclosed(ts) ==
    /\ Len(ts) >= 2
    /\ ts[1].type = KEYWORD /\ Text(ts[1].value) = "boot"
    /\ ts[Len(ts)].type = KEYWORD /\ Text(ts[Len(ts)].value) = "end"
    /\ \A k \in 2..(Len(ts) - 1) : ~(ts[k].type = KEYWORD /\ IsBoundary(ts[k]))

(* C13: the translator accepts a program only if it is enclosed in boot    *)
(* ... end: whenever tokenize and parse have returned without an error,    *)
(* the source starts with boot, ends with end and has neither in the       *)
(* middle of its statement list.                                           *)
C13_AcceptsOnlyEnclosed == pc = "exec" => Enclosed(tokens)

-----------------------------------------------------------------------------
\* the four declarations of the syntax guide, each a source of its own
ReadmeDeclarations == {ReadmeLines[k] : k \in 3..6}

(* C14: each declaration form of the README syntax guide (var. int score   *)
(* = 100, var. float pi = 3.14, const. int MAX_LIVES = 3, var. char grade  *)
(* = "A") is compiled without error: the translator ends successfully,     *)
(* having declared one symbol and emitted an immediate load and a store.   *)
C14_ReadmeDeclarationsCompile ==
    code \in ReadmeDeclarations /\ pc \in {"catch", "exec"} =>
        /\ pc = "exec"
        /\ Len(symbolTable) = 1
        /\ Len(emitted) = 2
        /\ emitted[1].instr = "DADDIU"
        /\ emitted[2].instr \in {"SD", "SB"}

-----------------------------------------------------------------------------
MultiplyDivide == {"DMULTU", "DDIVU"}

\* how many of the tokens the statement consumed are one of the operators ops
OperatorsConsumed(ops) ==
    Cardinality({k \in (pos + 1)..pos' :
                    /\ tokens[k].type = OPERATOR
                    /\ Text(tokens[k].value) \in ops})

\* how many of the instructions the statement emitted are instr
Emitted(instr) ==
    Cardinality({k \in 1..Len(Appended) : Appended[k].instr = instr})

(* C15: every multiply or divide, from * or / inside an expression or from *)
(* *= or /=, is emitted as two consecutive instructions: DMULTU or DDIVU   *)
(* on two registers the statement wrote before (the left one first), then  *)
(* at once MFLO into the register allocated next; no MFLO stands anywhere  *)
(* else, and a statement that succeeds emits one DMULTU per * or *= and    *)
(* one DDIVU per / or /= it consumed.                                      *)
C15_MultiplyDivideThenMflo ==
    [][AtStatement =>
          /\ \A k \in 1..Len(Appended) :
                Appended[k].instr \in MultiplyDivide =>
                    /\ k + 1 <= Len(Appended)
                    /\ Appended[k + 1].instr = "MFLO"
                    /\ Appended[k + 1].rd = Appended[k].rt + 1
                    /\ Appended[k].rs < Appended[k].rt
                    /\ \E i \in 1..(k - 1), j \in 1..(k - 1) :
                          /\ WritesRegister(Appended[i])
                          /\ Destination(Appended[i]) = Appended[k].rs
                          /\ WritesRegister(Appended[j])
                          /\ Destination(Appended[j]) = Appended[k].rt
          /\ \A k \in 1..Len(Appended) :
                Appended[k].instr = "MFLO" =>
                    k > 1 /\ Appended[k - 1].instr \in MultiplyDivide
          /\ thrown' = NoError =>
                /\ Emitted("DMULTU") = OperatorsConsumed({"*", "*="})
                /\ Emitted("DDIVU") = OperatorsConsumed({"/", "/="})]_vars

\* a /= whose DDIVU R1, R3 and MFLO R4 follow a program that multiplied
C15_Witness ==
    /\ thrown = NoError
    /\ \E j \in 1..Len(emitted), k \in 1..Len(emitted) :
           /\ j + 1 < k /\ k + 1 <= Len(emitted)
           /\ emitted[j].instr = "DMULTU" /\ emitted[j + 1].instr = "MFLO"
           /\ emitted[k].instr = "DDIVU" /\ emitted[k].rs = 1
           /\ emitted[k].rt = 3
           /\ emitted[k + 1].instr = "MFLO" /\ emitted[k + 1].rd = 4

-----------------------------------------------------------------------------
\* programs whose right-hand sides are -5, 2 * -3 and -a
UnaryMinusSources ==
    {StatementLines[13],
     StatementLines[1] \o StatementLines[14],
     StatementLines[1] \o StatementLines[15]}

(* C16: the expression compiler accepts unary minus as a factor: a         *)
(* declaration or an assignment whose right-hand side is -5, -a or 2 * -3  *)
(* compiles, the translator never answering it with an error.              *)
C16_UnaryMinusCompiles == code \in UnaryMinusSources => pc # "catch"

-----------------------------------------------------------------------------
CompoundOperators == {"+=", "-=", "*=", "/="}

\* the statement at pos is name op= ..., name being a symbol that is not const
AtCompoundAssignment ==
    /\ AtStatement
    /\ peek(Sim).type = VARIABLE_
    /\ findSymbol(Sim, Text(peek(Sim).value)) # NoSymbol
    /\ ~findSymbol(Sim, Text(peek(Sim).value)).isConst
    /\ tokenAt(Sim, 1) # Undefined
    /\ tokenAt(Sim, 1).type = OPERATOR
    /\ Text(tokenAt(Sim, 1).value) \in CompoundOperators

\* the right-hand side compiled on its own, R1 being taken
CompoundRhs ==
    parseExpression([Sim EXCEPT !.pos = pos + 2, !.tempRegCount = 1,
                                !.emitted = <<>>])

\* the instructions of the operation, between the registers left, right and
\* result
CompoundOperation(op, left, right, result) ==
    IF op = "+=" THEN <<[instr |-> "DADDU", rd |-> result, rs |-> left,
                         rt |-> right]>>
    ELSE IF op = "-=" THEN <<[instr |-> "DSUBU", rd |-> result, rs |-> left,
                              rt |-> right]>>
    ELSE IF op = "*=" THEN <<[instr |-> "DMULTU", rd |-> 0, rs |-> left,
                              rt |-> right],
                             [instr |-> "MFLO", rd |-> result, rs |-> 0,
                              rt |-> 0]>>
    ELSE <<[instr |-> "DDIVU", rd |-> 0, rs |-> left, rt |-> right],
           [instr |-> "MFLO", rd |-> result, rs |-> 0, rt |-> 0]>>

\* an emitted instruction as its mnemonic and its three registers
Registers(e) == [instr |-> e.instr, rd |-> e.rd, rs |-> e.rs, rt |-> e.rt]

\* what the statement is to emit, load and store being the mnemonics of its
\* first and last instruction
CompoundExpected(load, store) ==
    <<[instr |-> load, rd |-> 1, rs |-> 0, rt |-> 0]>>
    \o [k \in 1..Len(CompoundRhs.emitted) |->
           Registers(CompoundRhs.emitted[k])]
    \o CompoundOperation(Text(tokenAt(Sim, 1).value), 1,
                         RegNum(CompoundRhs.ret), RegNum(CompoundRhs.ret) + 1)
    \o <<[instr |-> store, rd |-> 0, rs |-> RegNum(CompoundRhs.ret) + 1,
          rt |-> 0]>>

(* C17: a compound assignment name op= expr on a mutable symbol emits, in  *)
(* this order and nothing else: a load of name into R1, the instructions   *)
(* of expr (numbered from R2), the operation with R1 as left operand, the  *)
(* result register of expr as right operand and the next register as       *)
(* result, and a store of that result register to name.                    *)
C17_CompoundAssignmentOrder ==
    [][AtCompoundAssignment /\ thrown' = NoError =>
          /\ \E load \in {"LD", "LBU"}, store \in {"SD", "SB"} :
                 [k \in 1..Len(Appended) |-> Registers(Appended[k])] =
                     CompoundExpected(load, store)
          /\ Appended[1].asm_instr =
                 Appended[1].instr \o " R1, " \o Text(peek(Sim).value)
                 \o "(R0)"
          /\ Appended[Len(Appended)].asm_instr =
                 Appended[Len(Appended)].instr \o " "
                 \o Text(<<"R">> \o Decimal(RegNum(CompoundRhs.ret) + 1))
                 \o ", " \o Text(peek(Sim).value) \o "(R0)"]_vars

\* a += 2 * 3 compiled: LD R1, the product in R4, DADDU R5, R1, R4, SD R5
C17_Witness ==
    /\ thrown = NoError
    /\ \E j \in 1..Len(tokens) : Text(tokens[j].value) = "+="
    /\ \E k \in 1..Len(emitted) :
           /\ k + 6 <= Len(emitted)
           /\ emitted[k].instr = "LD" /\ emitted[k].rd = 1
           /\ emitted[k + 4].instr = "MFLO" /\ emitted[k + 4].rd = 4
           /\ emitted[k + 5].instr = "DADDU" /\ emitted[k + 5].rs = 1
           /\ emitted[k + 5].rt = 4 /\ emitted[k + 5].rd = 5
           /\ emitted[k + 6].instr = "SD" /\ emitted[k + 6].rs = 5

-----------------------------------------------------------------------------
\* the statement consumed a token of this type
Consumed(type) == \E k \in (pos + 1)..pos' : tokens[k].type = type

\* the index of the first token of this type the statement consumed
FirstConsumed(type) ==
    CHOOSE k \in (pos + 1)..pos' :
        /\ tokens[k].type = type
        /\ \A j \in (pos + 1)..(k - 1) : tokens[j].type # type

\* a declaration with an initialiser or an assignment is at pos and succeeds
AtStoringStatement ==
    /\ AtStatement
    /\ IsDeclaration(peek(Sim)) \/ peek(Sim).type = VARIABLE_
    /\ thrown' = NoError
    /\ Consumed(OPERATOR)

\* the name declared or assigned to, and its symbol
Target == Text(tokens[FirstConsumed(VARIABLE_)].value)

\* the symbol of a name once the statement has run
SymbolAfter(name) ==
    findSymbol([Sim EXCEPT !.symbolTable = symbolTable'], name)

TargetSymbol == SymbolAfter(Target)

IsCompound == Text(tokens[FirstConsumed(OPERATOR)].value) \in CompoundOperators

\* the right-hand expression compiled on its own, behind the operator; the
\* load of a compound assignment has taken R1
RightHandSide ==
    parseExpression([Sim EXCEPT !.pos = FirstConsumed(OPERATOR),
                                !.symbolTable = symbolTable',
                                !.tempRegCount = IF IsCompound THEN 1 ELSE 0,
                                !.emitted = <<>>])

IsVariable(t) == t.type = VARIABLE_

\* the names whose value the statement reads, in source order
VariablesRead ==
    [k \in 1..Len(SelectSeq(SubSeq(tokens, FirstConsumed(OPERATOR) + 1, pos'),
                            IsVariable)) |->
        Text(SelectSeq(SubSeq(tokens, FirstConsumed(OPERATOR) + 1, pos'),
                       IsVariable)[k].value)]

NamesLoaded == IF IsCompound THEN <<Target>> \o VariablesRead ELSE VariablesRead

IsLoad(e) == e.instr \in {"LD", "LBU"}

IsStore(e) == e.instr \in {"SD", "SB"}

LoadMnemonic(type) == IF type = "char" THEN "LBU" ELSE "LD"

StoreMnemonic(type) == IF type = "char" THEN "SB" ELSE "SD"

\* the assembly text of a load or store of register n at name
MemoryText(mnemonic, n, name) ==
    mnemonic \o " " \o Text(<<"R">> \o Decimal(n)) \o ", " \o name \o "(R0)"

\* every name read is loaded, in order, with the mnemonic of its type
LoadsFollowType ==
    /\ Len(SelectSeq(Appended, IsLoad)) = Len(NamesLoaded)
    /\ \A k \in 1..Len(NamesLoaded) :
          /\ SelectSeq(Appended, IsLoad)[k].instr =
                 LoadMnemonic(SymbolAfter(NamesLoaded[k]).type)
          /\ SelectSeq(Appended, IsLoad)[k].asm_instr =
                 MemoryText(
                     LoadMnemonic(SymbolAfter(NamesLoaded[k]).type),
                     SelectSeq(Appended, IsLoad)[k].rd, NamesLoaded[k])

\* every load a statement emits, of whatever kind the statement is, names a
\* declared symbol and has the mnemonic of that symbol's type
EveryLoadTyped ==
    \A k \in 1..Len(Appended) :
        IsLoad(Appended[k]) =>
            \E j \in 1..Len(symbolTable') :
                /\ Appended[k].instr = LoadMnemonic(symbolTable'[j].type)
                /\ Appended[k].asm_instr =
                       MemoryText(Appended[k].instr, Appended[k].rd,
                                  symbolTable'[j].name)

\* the statement's one store is its last instruction, has the mnemonic of
\* the target's type and stores register n
StoreFollowsType(n) ==
    /\ Len(SelectSeq(Appended, IsStore)) = 1
    /\ IsStore(Appended[Len(Appended)])
    /\ Appended[Len(Appended)].instr = StoreMnemonic(TargetSymbol.type)
    /\ Appended[Len(Appended)].rs = n
    /\ Appended[Len(Appended)].asm_instr =
           MemoryText(StoreMnemonic(TargetSymbol.type), n, Target)

(* C18, as stated: load and store width follow the declared type (LBU and  *)
(* SB for char, LD and SD for every other type), and the store of every    *)
(* declaration initialiser and of every assignment stores the register the *)
(* right-hand expression returned.                                         *)
C18_StoresExpressionRegister ==
    [][/\ AtStatement => EveryLoadTyped
       /\ AtStoringStatement =>
              /\ LoadsFollowType
              /\ StoreFollowsType(RegNum(RightHandSide.ret))]_vars

(* C18, amended: load and store width follow the declared type (LBU and SB *)
(* for char, LD and SD for every other type); the store of a declaration   *)
(* initialiser and of a simple assignment stores the register the          *)
(* right-hand expression returned, and the store of a compound assignment  *)
(* stores the register of the operation's result, the one allocated after  *)
(* the right-hand expression.                                              *)
C18_WidthFollowsType ==
    [][/\ AtStatement => EveryLoadTyped
       /\ AtStoringStatement =>
              /\ LoadsFollowType
              /\ StoreFollowsType(IF IsCompound
                                  THEN RegNum(RightHandSide.ret) + 1
                                  ELSE RegNum(RightHandSide.ret))]_vars

\* c += 1 on a char c compiled (LBU R1 ... DADDU R3 ... SB R3) in a program
\* that also stored an int with SD
C18_Witness ==
    /\ thrown = NoError
    /\ \E j \in 1..Len(emitted) : emitted[j].instr = "SD"
    /\ \E k \in 1..Len(emitted) :
           /\ k + 3 <= Len(emitted)
           /\ emitted[k].instr = "LBU" /\ emitted[k].rd = 1
           /\ emitted[k + 2].instr = "DADDU" /\ emitted[k + 2].rd = 3
           /\ emitted[k + 3].instr = "SB" /\ emitted[k + 3].rs = 3

-----------------------------------------------------------------------------
\* funct and opcode as emitInstruction sets them
Funct(instr) ==
    CASE instr = "DADDU" -> 45
      [] instr = "DSUBU" -> 47
      [] instr = "DMULTU" -> 29
      [] instr = "DDIVU" -> 31
      [] instr = "MFLO" -> 18
      [] OTHER -> 0

Opcode(instr) ==
    CASE instr = "DADDIU" -> 25
      [] instr = "LD" -> 55
      [] instr = "SD" -> 63
      [] instr = "SB" -> 40
      [] instr = "LBU" -> 36
      [] OTHER -> 0

\* the operands an instruction puts into the fields rs, rt and rd
RsField(e) == IF e.instr = "MFLO" THEN 0 ELSE e.rs

RtField(e) == IF e.instr = "MFLO" THEN 0 ELSE e.rt

RdField(e) ==
    IF e.instr \in {"DADDU", "DSUBU", "MFLO"} THEN e.rd ELSE 0

\* the line of the binary listing for a word given as its 32 binary digits
WordLine(bits) == Text(bits) \o " (" \o Text(binToHex(bits)) \o ")"

(* C19: for the register-form instructions DADDU, DSUBU, DMULTU, DDIVU and *)
(* MFLO with register numbers in 0..31 the word is opcode(6) = 0, rs(5),   *)
(* rt(5), rd(5), shamt(5) = 0, funct(6); for DADDU and DSUBU rs is the     *)
(* left operand, rt the right operand and rd the result, as the assembly   *)
(* text names them; and no other register-form mnemonic has the same       *)
(* funct.                                                                  *)
C19_RegisterFormLayout ==
    \A k \in 1..Len(emitted) :
        /\ emitted[k].instr \in RegisterForms
        /\ {RsField(emitted[k]), RtField(emitted[k]), RdField(emitted[k])}
               \subseteq 0..31
        => /\ binaryOutput[k] =
                  WordLine(encodeRType(0, RsField(emitted[k]),
                               RtField(emitted[k]), RdField(emitted[k]), 0,
                               Funct(emitted[k].instr)))
           /\ \A other \in RegisterForms \ {emitted[k].instr} :
                  Funct(other) # Funct(emitted[k].instr)
           /\ emitted[k].asm_instr # emitted[k].instr =>
                  emitted[k].asm_instr =
                      emitted[k].instr \o " " \o Text(Handle(emitted[k].rd))
                      \o ", " \o Text(Handle(emitted[k].rs)) \o ", "
                      \o Text(Handle(emitted[k].rt))

\* DSUBU R2, R31, R21 emitted by the call parseExpression makes
C19_Witness ==
    /\ Len(emitted) = 1
    /\ emitted[1].instr = "DSUBU"
    /\ emitted[1].asm_instr = "DSUBU R2, R31, R21"
    /\ emitted[1].rd = 2 /\ emitted[1].rs = 31 /\ emitted[1].rt = 21
    /\ binaryOutput[1] = "00000011111101010001000000101111 (0x03F5102F)"

(* C20: out-of-range operands are truncated to their own field and never   *)
(* raise an error: the word of every instruction is the one of its         *)
(* operands cut to the field widths, an immediate to its low 16 bits and a *)
(* register number to its low 5 bits, with the opcode and every other      *)
(* field as for the operands in range.                                     *)
C20_OperandsTruncated ==
    /\ thrown = NoError
    /\ \A k \in 1..Len(emitted) :
          binaryOutput[k] =
              WordLine(IF emitted[k].instr \in RegisterForms
                       THEN encodeRType(0, RsField(emitted[k]),
                                RtField(emitted[k]), RdField(emitted[k]), 0,
                                Funct(emitted[k].instr))
                       ELSE encodeIType(Opcode(emitted[k].instr),
                                emitted[k].rs, emitted[k].rt,
                                emitted[k].imm))

-----------------------------------------------------------------------------
\* the newline characters among the first i characters of a source
Newlines(source, i) == Cardinality({k \in 1..i : source[k] = "\n"})

(* C21: the line attached to every token is 1 plus the number of newline   *)
(* characters in the source before the token's first character, for every  *)
(* source, also with a newline inside a double-quoted literal or at the    *)
(* end of a comment.                                                       *)
C21_LineCountsNewlines ==
    pc \in {"parse", "catch"} =>
        \A k \in 1..Len(tokens) :
            tokens[k].line = 1 + Newlines(code, TokenStarts(code)[k])

-----------------------------------------------------------------------------
\* the statement at pos is a display with this command word
AtDisplay(cmd) == AtStatement /\ Text(peek(Sim).value) = cmd

\* the command word is followed by an opening bracket
Bracketed ==
    /\ tokenAt(Sim, 1) # Undefined
    /\ tokenAt(Sim, 1).type = DELIMITER
    /\ Text(tokenAt(Sim, 1).value) = "["

\* the token behind the opening bracket is of this type and the closing
\* bracket follows it
WholePayload(type) ==
    /\ tokenAt(Sim, 2) # Undefined
    /\ tokenAt(Sim, 2).type = type
    /\ tokenAt(Sim, 3) # Undefined
    /\ tokenAt(Sim, 3).type = DELIMITER
    /\ Text(tokenAt(Sim, 3).value) = "]"

C23_DsplyAtSilentOnlyForName ==
    [][AtDisplay("dsply@") /\ Bracketed /\ thrown' = NoError =>
          /\ WholePayload(VARIABLE_) =>
                /\ Appended = << >>
                /\ binaryOutput' = binaryOutput
                /\ symbolTable' = symbolTable
                /\ findSymbol(Sim, Text(tokenAt(Sim, 2).value)) # NoSymbol
          /\ ~WholePayload(VARIABLE_) =>
                /\ Len(Appended) >= 1
                /\ tokenAt(Sim, 2).type # STRING_LITERAL]_vars

TypeKeywords == {"int", "float", "char"}

\* the statement at pos is a declaration
AtDeclaration == AtStatement /\ IsDeclaration(peek(Sim))

\* the first token behind the scope keyword that is no "."
RECURSIVE TypeTokenFrom(_)
TypeTokenFrom(k) ==
    IF tokenAt(Sim, k) # Undefined /\ Text(tokenAt(Sim, k).value) = "."
    THEN TypeTokenFrom(k + 1)
    ELSE tokenAt(Sim, k)

(* C24: a declaration is accepted only when the token after the scope      *)
(* keyword and its separators is int, float or char, so every symbol of    *)
(* the table has one of these three types.                                 *)
C24_TypeIsIntFloatChar ==
    [][AtDeclaration /\ thrown' = NoError =>
          /\ Text(TypeTokenFrom(1).value) \in TypeKeywords
          /\ \A k \in 1..Len(symbolTable') :
                symbolTable'[k].type \in TypeKeywords]_vars

\* the word of a load or store of register n at a symbol, as encodeLD and
\* encodeSD lay it out: the base register R0, the register n, the offset
MemoryWord(instr, n, sym) == encodeIType(Opcode(instr), 0, n, sym.addr)

(* C25: the register and address fields of the word of every load and      *)
(* store agree with its assembly text: "LD/LBU Rn, name(R0)" and           *)
(* "SD/SB Rn, name(R0)" have n in the rt field, the base register 0 in the *)
(* rs field, and the storage offset assigned to name in the 16-bit         *)
(* immediate.                                                              *)
C25_MemoryFieldsAgreeWithText ==
    Len(binaryOutput) = Len(emitted) =>
        \A k \in 1..Len(emitted) :
            IsLoad(emitted[k]) \/ IsStore(emitted[k]) =>
                \E n \in 0..31, j \in 1..Len(symbolTable) :
                    /\ emitted[k].asm_instr =
                           MemoryText(emitted[k].instr, n, symbolTable[j].name)
                    /\ binaryOutput[k] =
                           WordLine(MemoryWord(emitted[k].instr, n,
                                               symbolTable[j]))

\* the registers an instruction reads: the operands of an arithmetic
\* instruction, the register a store writes to memory; MFLO reads the
\* accumulator and a load or DADDIU reads R0 alone
Reads(e) ==
    IF e.instr \in {"DADDU", "DSUBU", "DMULTU", "DDIVU"} THEN {e.rs, e.rt}
    ELSE IF IsStore(e) THEN {e.rs}
    ELSE {}

\* the registers written by the first n instructions of a piece of the log
WrittenBefore(log, n) ==
    {Destination(log[j]) : j \in {i \in 1..n : WritesRegister(log[i])}}

(* C26: within every statement each register that an arithmetic            *)
(* instruction or a store reads was written by an earlier instruction of   *)
(* the same statement, and no instruction has R0 as its destination; this  *)
(* holds with parenthesised sub-expressions too, whose handle is allocated *)
(* and never loaded.                                                       *)
C26_ReadsFollowWrites ==
    [][AtStatement =>
          \A k \in 1..Len(Appended) :
              /\ Reads(Appended[k]) \subseteq WrittenBefore(Appended, k - 1)
              /\ WritesRegister(Appended[k]) =>
                    Destination(Appended[k]) >= 1]_vars

\* a=(a+1)*c has run behind the declarations of a and c: it allocated six
\* handles, wrote five registers and stored the last
C26_Witness ==
    /\ pc = "parse"
    /\ thrown = NoError
    /\ code = StatementLines[1] \o StatementLines[2] \o StatementLines[4]
    /\ pos = Len(tokens)
    /\ tempRegCount = 6
    /\ emitted[Len(emitted)].instr = "SD"
    /\ emitted[Len(emitted)].rs = 6
    /\ emitted[Len(emitted) - 1].instr = "MFLO"

\* the iteration of the tokenizer's loop at index i
ScanAt(source, i) == Scan(source, i, 1, CharAt(source, i))

\* every iteration of the tokenizer's loop moves the index on or throws
ScanAdvances(source) ==
    \A i \in 0..(Len(source) - 1) :
        ScanAt(source, i).thrown # NoError \/ ScanAt(source, i).i > i

\* the simulator at the token p
SimAt(p) == [Sim EXCEPT !.pos = p]

\* the body of the loop of parseExpression or parseTerm, run at an operator
OperandBehind(p) ==
    IF Text(tokens[p + 1].value) \in {"+", "-"}
    THEN parseTerm(Advance(SimAt(p)))
    ELSE parseFactor(Advance(SimAt(p)))

\* every iteration of the loops of parseExpression and parseTerm, at
\* whatever operator it starts, consumes a token or throws
OperandAdvances(p) ==
    Text(tokens[p + 1].value) \in {"+", "-", "*", "/"} =>
        Failed(OperandBehind(p)) \/ OperandBehind(p).pos > p

(* C27: tokenize and parse terminate on every input: each iteration of the *)
(* tokenizer's loop advances the index or throws; each iteration of the    *)
(* statement loop, and of the expression and term loops, consumes at least *)
(* one token or throws.  The index is bounded by the length of the source  *)
(* and pos by the number of tokens, which the statement loop leaves alone, *)
(* so neither loop can run for ever.                                       *)
C27_TranslatorTerminates ==
    /\ [](pc # "idle" => ScanAdvances(code))
    /\ [](pc = "parse" =>
            /\ pos <= Len(tokens)
            /\ \A p \in 0..(Len(tokens) - 1) : OperandAdvances(p))
    /\ [][InLoop =>
            \/ pc' = "catch" /\ thrown' # NoError
            \/ pc' = "parse" /\ pos' > pos /\ tokens' = tokens]_vars

\* the translator has gone through a comment, a declaration and an
\* assignment with both loops, and has left the statement loop
C27_Witness ==
    /\ pc = "exec"
    /\ pos = Len(tokens)
    /\ code = Fragments[1] \o Fragments[3] \o Fragments[9]
    /\ \E k \in 1..Len(emitted) : emitted[k].instr = "DADDU"
    /\ \E k \in 1..Len(emitted) : emitted[k].instr = "MFLO"

\* process k, not yet read by its interpreter, still finds its own program
\* in the temp file
FileKeptFor(k) ==
    children[k].state = "started" =>
        tempFile.exists /\ tempFile.content = children[k].code

\* the interpreter of process k has run the program of its own request
OwnProgramRun(k) ==
    children[k].state # "started" =>
        ~children[k].missing /\ children[k].program = children[k].code

(* C28: with requests that overlap, the interpreter output of every        *)
(* response is the result of running the source of its own request, and    *)
(* the temp file of a request is neither overwritten nor deleted by        *)
(* another request before its interpreter has read it.                     *)
C28_RequestsDoNotInterfere ==
    /\ \A k \in 1..Len(children) : FileKeptFor(k) /\ OwnProgramRun(k)
    /\ \A k \in 1..Len(sessions) :
          ~sessions[k].response.failed =>
              sessions[k].response.program = sessions[k].code

\* the translator has ended, with or without an exception
Translated == pc \in {"catch", "exec"} \/ (pc = "parse" /\ ~InLoop)

(* C29: every /compile request receives exactly one response; the          *)
(* interpreter is started (temp_code.txt written) only after tokenize and  *)
(* parse succeeded; and when the translator throws, the response is sent   *)
(* without the interpreter having run.                                     *)
C29_OneResponsePerRequest ==
    /\ [](tempFile.exists =>
            /\ pc = "exec"
            /\ thrown = NoError
            /\ ~(pos < Len(tokens))
            /\ tempFile.content = code)
    /\ [](response.sent /\ thrown # NoError =>
            /\ response.failed
            /\ response.program = << >>
            /\ ~tempFile.exists)
    /\ [][response' # response =>
            \/ pc = "idle" /\ ~response'.sent
            \/ /\ pc \in {"catch", "exec"}
               /\ ~response.sent
               /\ response'.sent
               /\ served' = served + 1]_vars
    /\ Translated ~> response.sent

\* a request that failed has been answered after one that ran the
\* interpreter
C29_Witness ==
    /\ pc = "idle"
    /\ Len(sessions) = 2
    /\ ~sessions[1].response.failed
    /\ sessions[1].response.program = sessions[1].code
    /\ response.sent
    /\ response.failed
    /\ thrown # NoError

\* the name was declared const with an initialiser: the declaration that
\* added it gave it a value
InitialisedConst(name) ==
    \E j \in 1..Len(interp.log) :
        /\ interp.log[j].rule = "decl_item ASSIGN"
        /\ interp.log[j].name = name
        /\ interp.log[j].added
        /\ interp.log[j].is_const = 1

\* the rule the step reduced
Reduced == interp'.log[Len(interp'.log)]

(* C30: in the interpreter, once a symbol is declared const and            *)
(* initialised no later statement changes its value or its constness:      *)
(* every form of assignment to it reports "Cannot reassign constant" and   *)
(* leaves the value, and a later declaration of the same name leaves the   *)
(* existing symbol untouched.                                              *)
C30_ConstantsKeepTheirValue ==
    [][\A k \in 1..Len(interp.sym_table) :
          InitialisedConst(interp.sym_table[k].name) =>
              /\ interp'.sym_table[k] = interp.sym_table[k]
              /\ Len(interp'.log) > Len(interp.log)
                 /\ Reduced.name = interp.sym_table[k].name
                 /\ Reduced.rule \in AssignOperators =>
                    /\ Len(interp'.out) > Len(interp.out)
                    /\ interp'.out[Len(interp'.out)] =
                           "Error: Cannot reassign constant '"
                           \o interp.sym_table[k].name \o "'."]_vars

=============================================================================
